---- MODULE Spec2Model ----
(***************************************************************************)
(* Dynamo: the persistent inventory store (MySQLInventoryStore), the REST  *)
(* client (RESTService), the replica-catalog adapter (PhEDExDBSSSB) and    *)
(* its copy/deletion submission interface, the enforcer, the policy and    *)
(* the singleton Generator, as state machines.                             *)
(*                                                                         *)
(* Each subsystem has its own specification (SpecStore, SpecLinks,         *)
(* SpecRest, SpecSched, SpecEnf, SpecPolicy, SpecInfo, SpecMutate,         *)
(* SpecWalk, SpecLoad, SpecStatus, SpecGen); the variables of the other    *)
(* subsystems stay at their idle values.                                   *)
(***************************************************************************)
EXTENDS Integers, Sequences, FiniteSets, TLC

VARIABLES
    \* ---- persistent store (mysqlstore.py)
    inventory,       \* the in-memory object graph handed to save_data
    ids,             \* the id field of every group, site, dataset and block
    db,              \* the SQL schema: table name -> table
    db_before,       \* history: db when save_data was entered
    store_op,        \* idle | save | saved | save_failed | load | loaded | load_failed
    store_pc,        \* index of the next query of the running operation
    store_i,         \* loop index inside the current step
    version_id_map,  \* local of _save_datasets
    store_error,     \* the exception that ended the operation
    save_result,     \* none | ok | failed : how the save_data before a load ended
    loaded,          \* the inventory being filled by load_data
    \* ---- make_replica_links (phedexdbsssb.py) ----
    datasets,                  \* the datasets map: name -> [blocks, replicas]
    site_dataset_replicas,     \* site.dataset_replicas of every site
    site_block_replicas,       \* the block replicas registered with every site
    replica_objs,              \* the DatasetReplica objects spliced into the graph
    datasets_without_replicas, \* the watch set
    unlinked,                  \* the datasets unlinked at the end
    workers,                   \* one exec_get call per item
    links_pc,                  \* idle | exec | joined | merged | done | raised
    remote,                    \* the block replicas the replica catalog knows
    group_quota,               \* sum(site.group_quota.values()) of every site
    dataset_filt,              \* the dataset_filt argument
    datasets_before,           \* the keys of the datasets map at the call
    lock,                      \* threading.Lock of the call: TRUE while it is held
    dataset_info,              \* is_open, status, size, num_files of the datasets
    \* ---- RESTService.make_request (webservice.py) ----
    rest_pc,         \* idle | loop | returned | raised
    num_attempts,    \* config.webservice.num_attempts
    accept,          \* self.accept
    exceptions,      \* the local list of (exception type, message) pairs
    server_log,      \* what each opener.open(request) so far was answered
    rest_result,     \* the value returned
    rest_error,      \* the exception raised out of make_request
    \* ---- schedule_copy/copies/deletion/deletions (phedexdbsssb.py) ----
    read_only,       \* config.read_only
    is_test,         \* the is_test argument
    sched_call,      \* the operation called and its arguments
    sched_pc,        \* idle | sites | done | raised
    requests,        \* the requests issued to the remote service, in order
    answers,         \* what the remote service answered to each of them
    sched_result,    \* the value returned
    request_mapping, \* the local request_mapping of the batched operations
    pending_sites,   \* the sites of replicas_by_site still to go through
    \* ---- EnforcerInterface.report_back (enforcer/interface.py) ----
    write_rrds,        \* self.write_rrds
    num_copies,        \* rule.num_copies
    destination_sites, \* get_destination_sites(rule_name, inventory, partition)
    source_sites,      \* get_source_sites(..), in the order the loop takes them
    enf_replicas,      \* dataset.replicas of the dataset of the inventory
    enf_pc,            \* idle | loop | done
    enf_pending,       \* the (site, replica) iterations still to come
    checked_datasets,  \* the local set checked_datasets
    product,           \* the local list product
    rrd,               \* the locals already_there, en_route and still_missing
    counted,           \* history: the locals of the iteration that counted
    \* ---- Policy.evaluate, Policy.sort_deletion_candidates (detox/policy.py) ----
    policy_op,         \* evaluate | sort_deletion_candidates
    default_decision,  \* self.default_decision
    rules,             \* self.rules: what each rule returns for the replica
    candidate_replicas, \* the replicas argument of sort_deletion_candidates
    global_usage_rank, \* demands.dataset_demands[dataset].global_usage_rank
    policy_pc,         \* idle | loop | done
    called,            \* history: the rules called so far, in order
    policy_result,     \* the value returned
    \* ---- fill_dataset_info, find_tape_copies (phedexdbsssb.py) ----
    info_op,           \* fill_dataset_info | find_tape_copies
    info_pc,           \* the position in the operation
    dataset_objs,      \* the datasets argument: name -> Dataset
    replica_index,     \* the DatasetReplica objects of these datasets
    site_index,        \* site.dataset_replicas of every site
    data_answer,       \* what the "data" call of the replica catalog answers
    tape_answer,       \* the blocks the "blockreplicasummary" call lists
    open_datasets,     \* the local list open_datasets
    all_open_blocks,   \* the list all_open_blocks
    dbs_checks,        \* one dbs_check call per element of all_open_blocks
    dataset_chunks,    \* the local list dataset_chunks of find_tape_copies
    blocks_on_tape,    \* the dict blocks_on_tape
    num_objects,       \* the number of Block objects made so far
    \* ---- the incremental mutators of the store (mysqlstore.py) ----
    mutate_call,       \* the mutator called and what it is called with
    mutate_pc,         \* idle | done
    sql_tables,        \* the rows of the tables the mutators write
    object_ids,        \* the id fields of the dataset, block, file and site
    queries,           \* the queries issued, in order
    sql_before,        \* history: sql_tables and object_ids before the call
    \* ---- MySQLInventoryStore._load_replicas, row by row (mysqlstore.py) ----
    walk_rows,         \* the rows the query yields, in the order of the stream
    walk_pc,           \* loop | done
    walk_i,            \* the number of rows taken from the stream
    walk_locals,       \* _dataset_id, _site_id, dataset, site, dataset_replica
    made_replicas,     \* the DatasetReplica objects made, with their block replicas
    linked_replicas,   \* dataset.replicas of every dataset
    link_log,          \* the replicas added to their dataset and site, in order
    \* ---- MySQLInventoryStore.load_data: filters and connection (mysqlstore.py) ----
    load_pc,           \* the step load_data is at | returned | raised
    load_names,        \* which of group_names, site_names, dataset_names are given
    reuse_connection,  \* self._mysql.reuse_connection
    reuse_connection_orig,  \* the local of load_data
    tmp_tables,        \* the temporary tables of the connection
    \* ---- PhEDExDBSSSB.set_site_status (phedexdbsssb.py) ----
    ssb_feeds,         \* what the dashboard answers for columns 153 and 199
    ssb_pc,            \* enter | fetch | entries | returned | raised
    ssb_col,           \* the position in [(153, WAITROOM), (199, MORGUE)]
    ssb_i,             \* the number of entries of the feed gone through
    site_status,       \* site.status of every site of the map
    latest_timestamp,  \* the local of set_site_status
    \* ---- Generator.__call__ (classes.py) ----
    singletons,        \* Generator._singletons: class -> object
    gen_pc,            \* per caller: idle | lookup | construct | store | return
    gen_key,           \* per caller: the interface key of the Generator called
    gen_obj,           \* per caller: the local obj
    gen_instances,     \* the objects made by self._cls()
    gen_returns,       \* history: what the calls returned, in order
    gen_calls,         \* history: the number of calls begun
    gen_overlap        \* history: a call began while another was under way

NULL == "NULL"

storeVars == <<inventory, ids, db, db_before, store_op, store_pc, store_i,
               version_id_map, store_error, save_result, loaded>>

linkVars == <<datasets, site_dataset_replicas, site_block_replicas, replica_objs,
              datasets_without_replicas, unlinked, workers, links_pc, remote,
              group_quota, dataset_filt, datasets_before, dataset_info, lock>>

restVars == <<rest_pc, num_attempts, accept, exceptions, server_log, rest_result,
              rest_error>>

schedVars == <<read_only, is_test, sched_call, sched_pc, requests, answers,
               sched_result, request_mapping, pending_sites>>

enfVars == <<write_rrds, num_copies, destination_sites, source_sites,
             enf_replicas, enf_pc, enf_pending, checked_datasets, product, rrd,
             counted>>

policyVars == <<policy_op, default_decision, rules, candidate_replicas,
                global_usage_rank,
                policy_pc, called, policy_result>>

infoVars == <<info_op, info_pc, dataset_objs, replica_index, site_index,
              data_answer, tape_answer, open_datasets, all_open_blocks,
              dbs_checks, dataset_chunks, blocks_on_tape, num_objects>>

mutateVars == <<mutate_call, mutate_pc, sql_tables, object_ids, queries, sql_before>>

walkVars == <<walk_rows, walk_pc, walk_i, walk_locals, made_replicas,
              linked_replicas, link_log>>

loadVars == <<load_pc, load_names, reuse_connection, reuse_connection_orig,
              tmp_tables>>

statusVars == <<ssb_feeds, ssb_pc, ssb_col, ssb_i, site_status,
                latest_timestamp>>

genVars == <<singletons, gen_pc, gen_key, gen_obj, gen_instances,
             gen_returns, gen_calls, gen_overlap>>

vars == <<storeVars, linkVars, restVars, schedVars, enfVars, policyVars, infoVars,
          mutateVars, walkVars, loadVars, statusVars, genVars>>

notStore == <<linkVars, restVars, schedVars, enfVars, policyVars, infoVars, mutateVars,
              walkVars, loadVars, statusVars, genVars>>

notLinks == <<storeVars, restVars, schedVars, enfVars, policyVars, infoVars, mutateVars,
              walkVars, loadVars, statusVars, genVars>>

notRest == <<storeVars, linkVars, schedVars, enfVars, policyVars, infoVars, mutateVars,
             walkVars, loadVars, statusVars, genVars>>

notSched == <<storeVars, linkVars, restVars, enfVars, policyVars, infoVars, mutateVars,
              walkVars, loadVars, statusVars, genVars>>

notEnf == <<storeVars, linkVars, restVars, schedVars, policyVars, infoVars, mutateVars,
            walkVars, loadVars, statusVars, genVars>>

notPolicy == <<storeVars, linkVars, restVars, schedVars, enfVars, infoVars, mutateVars,
               walkVars, loadVars, statusVars, genVars>>

notInfo == <<storeVars, linkVars, restVars, schedVars, enfVars, policyVars,
            mutateVars, walkVars, loadVars, statusVars, genVars>>

notMutate == <<storeVars, linkVars, restVars, schedVars, enfVars, policyVars,
              infoVars, walkVars, loadVars, statusVars, genVars>>

notWalk == <<storeVars, linkVars, restVars, schedVars, enfVars, policyVars,
             infoVars, mutateVars, loadVars, statusVars, genVars>>

notLoad == <<storeVars, linkVars, restVars, schedVars, enfVars, policyVars,
             infoVars, mutateVars, walkVars, statusVars, genVars>>

notStatus == <<storeVars, linkVars, restVars, schedVars, enfVars, policyVars,
               infoVars, mutateVars, walkVars, loadVars, genVars>>

notGen == <<storeVars, linkVars, restVars, schedVars, enfVars, policyVars,
            infoVars, mutateVars, walkVars, loadVars, statusVars>>

GenIdle ==
    /\ singletons = << >>
    /\ gen_pc = << >>
    /\ gen_key = << >>
    /\ gen_obj = << >>
    /\ gen_instances = {}
    /\ gen_returns = << >>
    /\ gen_calls = 0
    /\ gen_overlap = FALSE

StatusIdle ==
    /\ ssb_feeds = << >>
    /\ ssb_pc = "unused"
    /\ ssb_col = 0
    /\ ssb_i = 0
    /\ site_status = << >>
    /\ latest_timestamp = << >>

\* load_data is not followed through its filters
LoadIdle ==
    /\ load_pc = "unused"
    /\ load_names = << >>
    /\ reuse_connection = FALSE
    /\ reuse_connection_orig = FALSE
    /\ tmp_tables = {}

\* _load_replicas is not walked row by row
WalkIdle ==
    /\ walk_rows = << >>
    /\ walk_pc = "unused"
    /\ walk_i = 0
    /\ walk_locals = << >>
    /\ made_replicas = << >>
    /\ linked_replicas = << >>
    /\ link_log = << >>

\* no incremental mutator is called
MutateIdle ==
    /\ mutate_call = << >>
    /\ mutate_pc = "unused"
    /\ sql_tables = << >>
    /\ object_ids = << >>
    /\ queries = << >>
    /\ sql_before = << >>

\* fill_dataset_info and find_tape_copies are not called
InfoIdle ==
    /\ info_op = "unused"
    /\ info_pc = "unused"
    /\ dataset_objs = << >>
    /\ replica_index = << >>
    /\ site_index = << >>
    /\ data_answer = << >>
    /\ tape_answer = << >>
    /\ open_datasets = << >>
    /\ all_open_blocks = << >>
    /\ dbs_checks = << >>
    /\ dataset_chunks = << >>
    /\ blocks_on_tape = << >>
    /\ num_objects = 0

\* the policy is not used
PolicyIdle ==
    /\ policy_op = "unused"
    /\ default_decision = 0
    /\ rules = << >>
    /\ candidate_replicas = << >>
    /\ global_usage_rank = << >>
    /\ policy_pc = "unused"
    /\ called = << >>
    /\ policy_result = << >>

\* report_back is not called
EnfIdle ==
    /\ write_rrds = FALSE
    /\ num_copies = 0
    /\ destination_sites = {}
    /\ source_sites = << >>
    /\ enf_replicas = {}
    /\ enf_pc = "unused"
    /\ enf_pending = << >>
    /\ checked_datasets = {}
    /\ product = << >>
    /\ rrd = << >>
    /\ counted = << >>

\* make_request is not called
RestIdle ==
    /\ rest_pc = "unused"
    /\ num_attempts = 0
    /\ accept = ""
    /\ exceptions = << >>
    /\ server_log = << >>
    /\ rest_result = NULL
    /\ rest_error = NULL

\* no copy or deletion is scheduled
SchedIdle ==
    /\ read_only = FALSE
    /\ is_test = FALSE
    /\ sched_call = << >>
    /\ sched_pc = "unused"
    /\ requests = << >>
    /\ answers = << >>
    /\ sched_result = << >>
    /\ request_mapping = << >>
    /\ pending_sites = << >>

\* the store is not used
StoreIdle ==
    /\ inventory = << >>
    /\ ids = << >>
    /\ db = << >>
    /\ db_before = << >>
    /\ store_op = "unused"
    /\ store_pc = 1
    /\ store_i = 1
    /\ version_id_map = << >>
    /\ store_error = "none"
    /\ save_result = "none"
    /\ loaded = << >>

\* make_replica_links is not running and has nothing to work on
LinksIdle ==
    /\ datasets = << >>
    /\ site_dataset_replicas = << >>
    /\ site_block_replicas = << >>
    /\ replica_objs = << >>
    /\ datasets_without_replicas = {}
    /\ unlinked = {}
    /\ workers = << >>
    /\ links_pc = "idle"
    /\ remote = {}
    /\ group_quota = << >>
    /\ dataset_filt = ""
    /\ datasets_before = {}
    /\ dataset_info = << >>
    /\ lock = FALSE

(***************************************************************************)
(* Bounds of the model.                                                    *)
(***************************************************************************)
MaxDatasets == 2
MaxBlocks == 2

\* Python None for Dataset.software_version (a 4-tuple otherwise).
NoneVersion == <<0, 0, 0, "None">>

GroupOrder == <<"G1", "G2">>
SiteOrder == <<"S1", "S2", "S3">>
DatasetOrder == <<"/a/p/t", "/g/p/t", "/m/p/t">>
BlockOrder == <<"b1", "b2", "b3">>

Range(s) == {s[k] : k \in 1..Len(s)}

Front(s) == SubSeq(s, 1, Len(s) - 1)

Last(s) == s[Len(s)]

Prefix(s, n) == [k \in 1..(IF n < Len(s) THEN n ELSE Len(s)) |-> s[k]]

\* Iteration order of a Python dict or set: arbitrary but fixed.
Order(universe, S) == SelectSeq(universe, LAMBDA x : x \in S)

B2I(b) == IF b THEN 1 ELSE 0

(***************************************************************************)
(* Block name encoding: the internal name is the storage key of the graph, *)
(* the external ("real") name is what SQL and the wire carry.              *)
(***************************************************************************)
real_name(n) == <<"ext", n>>

to_internal_name(e) == e[2]

(***************************************************************************)
(* The SQL schema.                                                         *)
(***************************************************************************)
LiveTables == {"groups", "sites", "software_versions", "datasets", "blocks",
               "dataset_replicas", "block_replicas", "block_replica_sizes"}

TmpOf == "groups" :> "groups_tmp" @@ "sites" :> "sites_tmp"
      @@ "software_versions" :> "software_versions_tmp"
      @@ "datasets" :> "datasets_tmp" @@ "blocks" :> "blocks_tmp"
      @@ "dataset_replicas" :> "dataset_replicas_tmp"
      @@ "block_replicas" :> "block_replicas_tmp"
      @@ "block_replica_sizes" :> "block_replica_sizes_tmp"

TmpTables == {TmpOf[t] : t \in LiveTables}

AllTables == LiveTables \cup TmpTables

NoTable == [exists |-> FALSE, schema |-> "", rows |-> {}, auto |-> 0]

\* CREATE TABLE x LIKE y: an empty table with y's columns.
TableLike(y) == [exists |-> TRUE, schema |-> db[y].schema, rows |-> {}, auto |-> 1]

\* A query naming the columns of `schema` works on table t only if t has them.
HasSchema(t, schema) == db[t].exists /\ db[t].schema = schema

(***************************************************************************)
(* The inventories save_data is called with.                               *)
(***************************************************************************)
InventoryOf(nd, nb, sv, rep) ==
    LET dnames == Range(Prefix(DatasetOrder, nd))
        bnames == Range(Prefix(BlockOrder, nb))
        full == {[dataset |-> d, site |-> "S1"] : d \in dnames}
        part == {[dataset |-> d, site |-> "S2"] : d \in dnames}
    IN  [groups |-> {[name |-> "G1", olevel |-> 1], [name |-> NULL, olevel |-> 0]},
         sites |-> {[name |-> s, host |-> "se", storage_type |-> 1,
                     backend |-> "be", status |-> 1] : s \in {"S1", "S2"}},
         datasets |-> {[name |-> d, size |-> nb * 10, num_files |-> nb * 2,
                        status |-> 1, data_type |-> 1,
                        software_version |-> IF sv # NoneVersion /\ d = DatasetOrder[2]
                                             THEN <<8, 0, 1, "patch1">> ELSE sv,
                        last_update |-> 100, is_open |-> FALSE] : d \in dnames},
         blocks |-> {[dataset |-> d, name |-> b, size |-> 10, num_files |-> 2,
                      is_open |-> (b = "b2"), last_update |-> 100]
                        : d \in dnames, b \in bnames},
         dreps |-> CASE rep = "none" -> {}
                     [] rep = "full" -> full
                     [] OTHER -> full \cup part,
         breps |-> CASE rep = "none" -> {}
                     [] OTHER ->
                        {[dataset |-> d, block |-> b, site |-> "S1", group |-> "G1",
                          is_complete |-> TRUE, is_custodial |-> FALSE, size |-> 10,
                          last_update |-> 100] : d \in dnames, b \in bnames}
                        \cup
                        (IF rep = "partial"
                         THEN {[dataset |-> d, block |-> b, site |-> "S2", group |-> NULL,
                                is_complete |-> FALSE, is_custodial |-> TRUE, size |-> 4,
                                last_update |-> 100]
                                 : d \in dnames, b \in bnames \cap {"b1"}}
                         ELSE {})]

EmptyInventory ==
    [groups |-> {[name |-> NULL, olevel |-> 0, id |-> 0]}, sites |-> {},
     datasets |-> {}, blocks |-> {}, dreps |-> {}, breps |-> {}]

\* Identifier fields are zero until first persisted.
UnsavedIds(inv) ==
    [groups |-> [g \in {x.name : x \in inv.groups} |-> 0],
     sites |-> [s \in {x.name : x \in inv.sites} |-> 0],
     datasets |-> [d \in {x.name : x \in inv.datasets} |-> 0],
     blocks |-> [b \in {<<x.dataset, x.name>> : x \in inv.blocks} |-> 0]]

(***************************************************************************)
(* The schema before save_data: empty tables, or the snapshot of an older  *)
(* inventory (one group, one site, one dataset of two blocks, one replica).*)
(***************************************************************************)
Table(schema, rows, auto) ==
    [exists |-> TRUE, schema |-> schema, rows |-> rows, auto |-> auto]

EmptyDb ==
    [t \in AllTables |-> IF t \in LiveTables THEN Table(t, {}, 1) ELSE NoTable]

OldDb ==
    [t \in AllTables |->
        CASE t = "groups" -> Table(t, {[id |-> 1, name |-> "G0", olevel |-> 1]}, 2)
          [] t = "sites" -> Table(t, {[id |-> 1, name |-> "S0", host |-> "se",
                                       storage_type |-> 1, backend |-> "be",
                                       status |-> 1]}, 2)
          [] t = "software_versions" ->
                Table(t, {[id |-> 1, version |-> <<7, 4, 0, "">>]}, 2)
          [] t = "datasets" ->
                Table(t, {[id |-> 1, name |-> "/old/p/t", size |-> 20, num_files |-> 4,
                           status |-> 1, data_type |-> 1, software_version_id |-> 1,
                           last_update |-> 50, is_open |-> 0]}, 2)
          [] t = "blocks" ->
                Table(t, {[id |-> 1, dataset_id |-> 1, name |-> real_name("b1"),
                           size |-> 10, num_files |-> 2, is_open |-> 0,
                           last_update |-> 50],
                          [id |-> 2, dataset_id |-> 1, name |-> real_name("b2"),
                           size |-> 10, num_files |-> 2, is_open |-> 1,
                           last_update |-> 50]}, 3)
          [] t = "dataset_replicas" -> Table(t, {[dataset_id |-> 1, site_id |-> 1]}, 0)
          [] t = "block_replicas" ->
                Table(t, {[block_id |-> 1, site_id |-> 1, group_id |-> 1,
                           is_complete |-> 1, is_custodial |-> 0, last_update |-> 50],
                          [block_id |-> 2, site_id |-> 1, group_id |-> 0,
                           is_complete |-> 0, is_custodial |-> 1, last_update |-> 50]}, 0)
          [] t = "block_replica_sizes" ->
                Table(t, {[block_id |-> 2, site_id |-> 1, size |-> 4]}, 0)
          [] OTHER -> NoTable]

(***************************************************************************)
(* save_data: the queries of _save_groups, _save_sites, _save_datasets,    *)
(* _save_blocks and _save_replicas, in program order.  t is the table the  *)
(* query is written against, u the second table of CREATE .. LIKE u and    *)
(* RENAME .. TO u.                                                         *)
(***************************************************************************)
Q(op, t, u) == [op |-> op, t |-> t, u |-> u]

SaveProgram ==
    << \* _save_groups
       Q("drop_if_exists", "groups_tmp", ""),
       Q("create_like", "groups_tmp", "groups"),
       Q("insert_group", "groups_tmp", ""),
       Q("drop", "groups", ""),
       Q("rename", "groups_tmp", "groups"),
       \* _save_sites
       Q("drop_if_exists", "sites_tmp", ""),
       Q("create_like", "sites_tmp", "sites"),
       Q("insert_site", "sites_tmp", ""),
       Q("drop", "sites", ""),
       Q("rename", "sites_tmp", "sites"),
       \* _save_datasets
       Q("drop_if_exists", "software_versions_tmp", ""),
       Q("create_like", "software_versions_tmp", "software_versions"),
       Q("insert_versions", "software_versions_tmp", ""),
       Q("drop", "software_versions", ""),
       Q("rename", "software_versions_tmp", "software_versions"),
       Q("select_versions", "software_versions", ""),
       Q("drop_if_exists", "datasets_tmp", ""),
       Q("create_like", "datasets_tmp", "groups"),
       Q("insert_dataset", "datasets", ""),
       Q("drop", "datasets", ""),
       Q("rename", "datasets_tmp", "datasets"),
       \* _save_blocks
       Q("drop_if_exists", "blocks_tmp", ""),
       Q("create_like", "blocks_tmp", "blocks"),
       Q("insert_block", "blocks", ""),
       Q("drop", "blocks", ""),
       Q("rename", "blocks_tmp", "blocks"),
       \* _save_replicas
       Q("drop_if_exists", "dataset_replicas_tmp", ""),
       Q("create_like", "dataset_replicas_tmp", "dataset_replicas"),
       Q("insert_dataset_replicas", "dataset_replicas_tmp", ""),
       Q("drop", "dataset_replicas", ""),
       Q("rename", "dataset_replicas_tmp", "dataset_replicas"),
       Q("drop_if_exists", "block_replicas_tmp", ""),
       Q("create_like", "block_replicas_tmp", "block_replicas"),
       Q("drop_if_exists", "block_replica_sizes_tmp", ""),
       Q("create_like", "block_replica_sizes_tmp", "block_replica_sizes"),
       Q("insert_block_replicas", "block_replicas_tmp", ""),
       Q("inert_many", "block_replica_sizes_tmp", ""),
       Q("drop", "block_replicas", ""),
       Q("rename", "block_replicas_tmp", "block_replicas"),
       Q("drop", "block_replica_sizes", ""),
       Q("rename", "block_replica_sizes_tmp", "block_replica_sizes") >>

\* load_data without filters: one SELECT per loading step.
LoadProgram ==
    << Q("load_groups", "groups", ""),
       Q("load_sites", "sites", ""),
       Q("load_datasets", "datasets", "software_versions"),
       Q("load_blocks", "blocks", ""),
       Q("load_replicas", "dataset_replicas", "") >>

Program == IF store_op = "load" THEN LoadProgram ELSE SaveProgram

Running == store_op \in {"save", "load"}

Step == Program[store_pc]

\* ---- what the loops of save_data iterate over
GroupItems ==
    Order(GroupOrder, {g.name : g \in {x \in inventory.groups : x.name # NULL}})

SiteItems == Order(SiteOrder, {s.name : s \in inventory.sites})

DatasetItems == Order(DatasetOrder, {d.name : d \in inventory.datasets})

BlocksOf(d) == Order(BlockOrder, {b.name : b \in {x \in inventory.blocks : x.dataset = d}})

RECURSIVE Concat(_)
Concat(ss) == IF ss = <<>> THEN <<>> ELSE Head(ss) \o Concat(Tail(ss))

\* the (x, y) pairs of a double loop: for x in outer, for y in inner[x]
Pairs(outer, inner) ==
    Concat([k \in 1..Len(outer) |->
              [j \in 1..Len(inner[outer[k]]) |-> <<outer[k], inner[outer[k]][j]>>]])

BlockItems == Pairs(DatasetItems, [d \in Range(DatasetItems) |-> BlocksOf(d)])

\* site.dataset_replicas()
dataset_replicas(s) ==
    Order(DatasetOrder, {r.dataset : r \in {x \in inventory.dreps : x.site = s}})

\* insert_many is handed one list per site; an empty list issues no query.
DatasetReplicaItems == SelectSeq(SiteItems, LAMBDA s : dataset_replicas(s) # <<>>)

\* the (site, dataset replica) pairs of the double loop of _save_replicas
BlockReplicaItems == Pairs(SiteItems, [s \in Range(SiteItems) |-> dataset_replicas(s)])

\* dataset_replica.block_replicas
block_replicas(s, d) == {r \in inventory.breps : r.site = s /\ r.dataset = d}

software_versions == {d.software_version : d \in inventory.datasets}

VersionItems ==
    SelectSeq(<<<<7, 4, 0, "">>, <<8, 0, 1, "patch1">>, NoneVersion>>,
              LAMBDA v : v \in software_versions)

Items(step) ==
    CASE step.op = "insert_group" -> GroupItems
      [] step.op = "insert_site" -> SiteItems
      [] step.op = "insert_versions" -> IF software_versions = {} THEN <<>> ELSE <<"all">>
      [] step.op = "insert_dataset" -> DatasetItems
      [] step.op = "insert_block" -> BlockItems
      [] step.op = "insert_dataset_replicas" -> DatasetReplicaItems
      [] step.op \in {"insert_block_replicas", "inert_many"} -> BlockReplicaItems
      [] OTHER -> <<"query">>

RECURSIVE Skip(_, _)
\* the first position at or after p whose step has something to do
Skip(prog, p) ==
    IF p > Len(prog) THEN <<p, 1>>
    ELSE IF Items(prog[p]) = <<>> THEN Skip(prog, p + 1)
    ELSE <<p, 1>>

\* the position after the step at (store_pc, store_i) completed
After ==
    IF Step.op = "insert_block_replicas" THEN <<store_pc + 1, store_i>>
    ELSE IF store_i < Len(Items(Step)) THEN <<store_pc, store_i + 1>>
    ELSE Skip(Program, store_pc + 1)

Goto(pos) ==
    /\ store_pc' = pos[1]
    /\ store_i' = pos[2]
    /\ IF pos[1] > Len(Program)
       THEN /\ store_op' = (IF store_op = "save" THEN "saved" ELSE "loaded")
            /\ save_result' = (IF store_op = "save" THEN "ok" ELSE save_result)
       ELSE UNCHANGED <<store_op, save_result>>

Abort(exc) ==
    /\ store_op' = (IF store_op = "save" THEN "save_failed" ELSE "load_failed")
    /\ save_result' = (IF store_op = "save" THEN "failed" ELSE save_result)
    /\ store_error' = exc
    /\ UNCHANGED <<store_pc, store_i>>

At(op) == Running /\ store_pc <= Len(Program) /\ Step.op = op

Item == Items(Step)[store_i]

\* INSERT into a table with an AUTO_INCREMENT id; the row id is db[t].auto
Insert(t, row) ==
    [db EXCEPT ![t].rows = @ \cup {row}, ![t].auto = @ + 1]

\* insert_many into a table without an id column
InsertRows(t, rows) == [db EXCEPT ![t].rows = @ \cup rows]

IssuesQuery ==
    /\ Step.op # "inert_many"
    /\ ~(Step.op = "insert_block_replicas" /\ block_replicas(Item[1], Item[2]) = {})

(***************************************************************************)
(* save_data                                                               *)
(***************************************************************************)
StartSave ==
    /\ store_op = "idle"
    /\ store_op' = "save"
    /\ db_before' = db
    /\ store_pc' = 1
    /\ store_i' = 1
    /\ UNCHANGED <<inventory, ids, db, version_id_map, store_error, save_result, loaded>>
    /\ UNCHANGED notStore

\* DROP TABLE IF EXISTS t
DropTableIfExists ==
    /\ At("drop_if_exists")
    /\ db' = [db EXCEPT ![Step.t] = NoTable]
    /\ Goto(After)
    /\ UNCHANGED <<inventory, ids, db_before, version_id_map, store_error, loaded>>
    /\ UNCHANGED notStore

\* CREATE TABLE t LIKE u
CreateTableLike ==
    /\ At("create_like")
    /\ ~db[Step.t].exists
    /\ db[Step.u].exists
    /\ db' = [db EXCEPT ![Step.t] = TableLike(Step.u)]
    /\ Goto(After)
    /\ UNCHANGED <<inventory, ids, db_before, version_id_map, store_error, loaded>>
    /\ UNCHANGED notStore

\* DROP TABLE t
DropTable ==
    /\ At("drop")
    /\ db[Step.t].exists
    /\ db' = [db EXCEPT ![Step.t] = NoTable]
    /\ Goto(After)
    /\ UNCHANGED <<inventory, ids, db_before, version_id_map, store_error, loaded>>
    /\ UNCHANGED notStore

\* RENAME TABLE t TO u
RenameTable ==
    /\ At("rename")
    /\ db[Step.t].exists
    /\ ~db[Step.u].exists
    /\ db' = [db EXCEPT ![Step.u] = db[Step.t], ![Step.t] = NoTable]
    /\ Goto(After)
    /\ UNCHANGED <<inventory, ids, db_before, version_id_map, store_error, loaded>>
    /\ UNCHANGED notStore

InsertGroup ==
    /\ At("insert_group")
    /\ HasSchema(Step.t, "groups")
    /\ LET g == CHOOSE x \in inventory.groups : x.name = Item
           id == db[Step.t].auto
       IN  /\ db' = Insert(Step.t, [id |-> id, name |-> g.name, olevel |-> g.olevel])
           /\ ids' = [ids EXCEPT !.groups[g.name] = id]
    /\ Goto(After)
    /\ UNCHANGED <<inventory, db_before, version_id_map, store_error, loaded>>
    /\ UNCHANGED notStore

InsertSite ==
    /\ At("insert_site")
    /\ HasSchema(Step.t, "sites")
    /\ LET s == CHOOSE x \in inventory.sites : x.name = Item
           id == db[Step.t].auto
       IN  /\ db' = Insert(Step.t, [id |-> id, name |-> s.name, host |-> s.host,
                                    storage_type |-> s.storage_type,
                                    backend |-> s.backend, status |-> s.status])
           /\ ids' = [ids EXCEPT !.sites[s.name] = id]
    /\ Goto(After)
    /\ UNCHANGED <<inventory, db_before, version_id_map, store_error, loaded>>
    /\ UNCHANGED notStore

\* insert_many of the set of software versions; None carries no columns
InsertVersions ==
    /\ At("insert_versions")
    /\ HasSchema(Step.t, "software_versions")
    /\ LET vs == SelectSeq(VersionItems, LAMBDA v : v # NoneVersion)
           first == db[Step.t].auto
       IN  db' = [db EXCEPT
                    ![Step.t].rows = @ \cup {[id |-> first + k - 1, version |-> vs[k]]
                                               : k \in 1..Len(vs)},
                    ![Step.t].auto = @ + Len(vs)]
    /\ Goto(After)
    /\ UNCHANGED <<inventory, ids, db_before, version_id_map, store_error, loaded>>
    /\ UNCHANGED notStore

SelectVersions ==
    /\ At("select_versions")
    /\ HasSchema(Step.t, "software_versions")
    /\ version_id_map' =
         [v \in {r.version : r \in db[Step.t].rows} |->
            (CHOOSE r \in db[Step.t].rows : r.version = v).id]
    /\ Goto(After)
    /\ UNCHANGED <<inventory, ids, db, db_before, store_error, loaded>>
    /\ UNCHANGED notStore

InsertDataset ==
    /\ At("insert_dataset")
    /\ HasSchema(Step.t, "datasets")
    /\ LET d == CHOOSE x \in inventory.datasets : x.name = Item
           id == db[Step.t].auto
       IN  /\ d.software_version \in DOMAIN version_id_map
           /\ db' = Insert(Step.t,
                      [id |-> id, name |-> d.name, size |-> d.size,
                       num_files |-> d.num_files, status |-> d.status,
                       data_type |-> d.data_type,
                       software_version_id |-> version_id_map[d.software_version],
                       last_update |-> d.last_update, is_open |-> B2I(d.is_open)])
           /\ ids' = [ids EXCEPT !.datasets[d.name] = id]
    /\ Goto(After)
    /\ UNCHANGED <<inventory, db_before, version_id_map, store_error, loaded>>
    /\ UNCHANGED notStore

\* version_id_map[dataset.software_version] of a version the map does not hold
RaiseKeyError ==
    /\ At("insert_dataset")
    /\ (CHOOSE x \in inventory.datasets : x.name = Item).software_version
          \notin DOMAIN version_id_map
    /\ Abort("KeyError")
    /\ UNCHANGED <<inventory, ids, db, db_before, version_id_map, loaded>>
    /\ UNCHANGED notStore

\* the id the INSERT returns is not stored: block.id keeps its value
InsertBlock ==
    /\ At("insert_block")
    /\ HasSchema(Step.t, "blocks")
    /\ LET b == CHOOSE x \in inventory.blocks : x.dataset = Item[1] /\ x.name = Item[2]
       IN  db' = Insert(Step.t,
                   [id |-> db[Step.t].auto, dataset_id |-> ids.datasets[b.dataset],
                    name |-> real_name(b.name), size |-> b.size,
                    num_files |-> b.num_files, is_open |-> B2I(b.is_open),
                    last_update |-> b.last_update])
    /\ Goto(After)
    /\ UNCHANGED <<inventory, ids, db_before, version_id_map, store_error, loaded>>
    /\ UNCHANGED notStore

InsertDatasetReplicas ==
    /\ At("insert_dataset_replicas")
    /\ HasSchema(Step.t, "dataset_replicas")
    /\ db' = InsertRows(Step.t,
               {[dataset_id |-> ids.datasets[d], site_id |-> ids.sites[Item]]
                  : d \in Range(dataset_replicas(Item))})
    /\ Goto(After)
    /\ UNCHANGED <<inventory, ids, db_before, version_id_map, store_error, loaded>>
    /\ UNCHANGED notStore

InsertBlockReplicas ==
    /\ At("insert_block_replicas")
    /\ IssuesQuery => HasSchema(Step.t, "block_replicas")
    /\ db' = InsertRows(Step.t,
               {[block_id |-> ids.blocks[<<r.dataset, r.block>>],
                 site_id |-> ids.sites[Item[1]], group_id |-> ids.groups[r.group],
                 is_complete |-> B2I(r.is_complete),
                 is_custodial |-> B2I(r.is_custodial), last_update |-> r.last_update]
                  : r \in block_replicas(Item[1], Item[2])})
    /\ Goto(After)
    /\ UNCHANGED <<inventory, ids, db_before, version_id_map, store_error, loaded>>
    /\ UNCHANGED notStore

\* self._mysql.inert_many: no such attribute
RaiseAttributeError ==
    /\ At("inert_many")
    /\ Abort("AttributeError")
    /\ UNCHANGED <<inventory, ids, db, db_before, version_id_map, loaded>>
    /\ UNCHANGED notStore

\* any query may fail (StoreError); nothing is cleaned up
QueryFails ==
    /\ Running
    /\ store_pc <= Len(Program)
    /\ IssuesQuery
    /\ Abort("StoreError")
    /\ UNCHANGED <<inventory, ids, db, db_before, version_id_map, loaded>>
    /\ UNCHANGED notStore

(***************************************************************************)
(* load_data (no filters) into an empty inventory                          *)
(***************************************************************************)
RECURSIVE SumOver(_, _)
SumOver(S, val) ==
    IF S = {} THEN 0
    ELSE LET x == CHOOSE y \in S : TRUE IN val[x] + SumOver(S \ {x}, val)

StartLoad ==
    /\ store_op \in {"idle", "saved", "save_failed"}
    /\ store_op' = "load"
    /\ store_pc' = 1
    /\ store_i' = 1
    /\ loaded' = EmptyInventory
    /\ UNCHANGED <<inventory, ids, db, db_before, version_id_map, store_error, save_result>>
    /\ UNCHANGED notStore

_load_groups ==
    /\ At("load_groups")
    /\ HasSchema("groups", "groups")
    /\ loaded' = [loaded EXCEPT !.groups = @ \cup
                    {[name |-> r.name, olevel |-> r.olevel, id |-> r.id]
                       : r \in db["groups"].rows}]
    /\ Goto(After)
    /\ UNCHANGED <<inventory, ids, db, db_before, version_id_map, store_error>>
    /\ UNCHANGED notStore

_load_sites ==
    /\ At("load_sites")
    /\ HasSchema("sites", "sites")
    /\ loaded' = [loaded EXCEPT !.sites = db["sites"].rows]
    /\ Goto(After)
    /\ UNCHANGED <<inventory, ids, db, db_before, version_id_map, store_error>>
    /\ UNCHANGED notStore

\* datasets LEFT JOIN software_versions
_load_datasets ==
    /\ At("load_datasets")
    /\ HasSchema("datasets", "datasets")
    /\ HasSchema("software_versions", "software_versions")
    /\ LET vrows == db["software_versions"].rows
           version(r) == IF \E v \in vrows : v.id = r.software_version_id
                         THEN (CHOOSE v \in vrows : v.id = r.software_version_id).version
                         ELSE NoneVersion
       IN  loaded' = [loaded EXCEPT !.datasets =
                        {[name |-> r.name, size |-> r.size, num_files |-> r.num_files,
                          status |-> r.status, data_type |-> r.data_type,
                          software_version |-> version(r),
                          last_update |-> r.last_update, is_open |-> (r.is_open = 1),
                          id |-> r.id] : r \in db["datasets"].rows}]
    /\ Goto(After)
    /\ UNCHANGED <<inventory, ids, db, db_before, version_id_map, store_error>>
    /\ UNCHANGED notStore

\* id_dataset_map, id_site_map, id_group_map of load_data
id_dataset_map == [i \in {d.id : d \in loaded.datasets} |->
                     CHOOSE d \in loaded.datasets : d.id = i]

id_site_map == [i \in {x.id : x \in loaded.sites} |->
                  CHOOSE x \in loaded.sites : x.id = i]

id_group_map == [i \in {g.id : g \in loaded.groups} |->
                   CHOOSE g \in loaded.groups : g.id = i]

\* blocks are grouped by dataset; size and num_files of a dataset with blocks
\* are recomputed from them
_load_blocks ==
    /\ At("load_blocks")
    /\ HasSchema("blocks", "blocks")
    /\ LET rows == db["blocks"].rows
           known == \A r \in rows : r.dataset_id \in DOMAIN id_dataset_map
           of(d) == {r \in rows : r.dataset_id = d.id}
       IN  IF known
           THEN /\ loaded' = [loaded EXCEPT
                    !.blocks = {[dataset |-> id_dataset_map[r.dataset_id].name,
                                 name |-> to_internal_name(r.name), size |-> r.size,
                                 num_files |-> r.num_files, is_open |-> (r.is_open = 1),
                                 last_update |-> r.last_update, id |-> r.id]
                                  : r \in rows},
                    !.datasets = {IF of(d) = {} THEN d
                                  ELSE [d EXCEPT
                                          !.size = SumOver(of(d), [r \in of(d) |-> r.size]),
                                          !.num_files =
                                             SumOver(of(d), [r \in of(d) |-> r.num_files])]
                                    : d \in loaded.datasets}]
                /\ Goto(After)
                /\ UNCHANGED store_error
           ELSE /\ Abort("KeyError")
                /\ UNCHANGED loaded
    /\ UNCHANGED <<inventory, ids, db, db_before, version_id_map>>
    /\ UNCHANGED notStore

\* dataset_replicas JOIN blocks LEFT JOIN block_replicas LEFT JOIN block_replica_sizes
ReplicaRows ==
    {[dataset_id |-> dr.dataset_id, site_id |-> dr.site_id, block |-> b]
       : dr \in db["dataset_replicas"].rows,
         b \in {x \in db["blocks"].rows :
                  \E y \in db["dataset_replicas"].rows : x.dataset_id = y.dataset_id}}

JoinedRows == {j \in ReplicaRows : j.block.dataset_id = j.dataset_id}

BlockReplicaRows(j) ==
    {br \in db["block_replicas"].rows :
       br.block_id = j.block.id /\ br.site_id = j.site_id}

SizeRows(j) ==
    {x \in db["block_replica_sizes"].rows :
       x.block_id = j.block.id /\ x.site_id = j.site_id}

_load_replicas ==
    /\ At("load_replicas")
    /\ HasSchema("dataset_replicas", "dataset_replicas")
    /\ HasSchema("blocks", "blocks")
    /\ HasSchema("block_replicas", "block_replicas")
    /\ HasSchema("block_replica_sizes", "block_replica_sizes")
    /\ LET known ==
             \A j \in JoinedRows :
                /\ j.dataset_id \in DOMAIN id_dataset_map
                /\ j.site_id \in DOMAIN id_site_map
                /\ \A br \in BlockReplicaRows(j) :
                      /\ br.group_id \in DOMAIN id_group_map
                      /\ \E b \in loaded.blocks : b.id = br.block_id
           blk(j) == CHOOSE b \in loaded.blocks : b.id = j.block.id
       IN  IF known
           THEN /\ loaded' = [loaded EXCEPT
                    !.dreps = {[dataset |-> id_dataset_map[j.dataset_id].name,
                                site |-> id_site_map[j.site_id].name] : j \in JoinedRows},
                    !.breps = UNION {
                        {[dataset |-> id_dataset_map[j.dataset_id].name,
                          block |-> blk(j).name,
                          site |-> id_site_map[j.site_id].name,
                          group |-> id_group_map[br.group_id].name,
                          is_complete |-> (br.is_complete = 1),
                          is_custodial |-> (br.is_custodial = 1),
                          size |-> IF SizeRows(j) = {} THEN blk(j).size
                                   ELSE (CHOOSE x \in SizeRows(j) : TRUE).size,
                          last_update |-> br.last_update]
                           : br \in BlockReplicaRows(j)} : j \in JoinedRows}]
                /\ Goto(After)
                /\ UNCHANGED store_error
           ELSE /\ Abort("KeyError")
                /\ UNCHANGED loaded
    /\ UNCHANGED <<inventory, ids, db, db_before, version_id_map>>
    /\ UNCHANGED notStore

\* the tables a step of load_data selects from
Reads(op) ==
    CASE op = "load_groups" -> {"groups"}
      [] op = "load_sites" -> {"sites"}
      [] op = "load_datasets" -> {"datasets", "software_versions"}
      [] op = "load_blocks" -> {"blocks"}
      [] OTHER -> {"dataset_replicas", "blocks", "block_replicas", "block_replica_sizes"}

\* a SELECT naming columns the table does not have is rejected by the server
UnknownColumn ==
    /\ Running
    /\ store_op = "load"
    /\ store_pc <= Len(Program)
    /\ \E t \in Reads(Step.op) : ~HasSchema(t, t)
    /\ Abort("UnknownColumn")
    /\ UNCHANGED <<inventory, ids, db, db_before, version_id_map, loaded>>
    /\ UNCHANGED notStore

(***************************************************************************)
(* The store's specification.                                              *)
(***************************************************************************)
InitStore ==
    /\ GenIdle
    /\ StatusIdle
    /\ LoadIdle
    /\ WalkIdle
    /\ \E nd \in 0..MaxDatasets, nb \in 0..MaxBlocks,
          sv \in {NoneVersion, <<7, 4, 0, "">>}, rep \in {"none", "full", "partial"} :
          inventory = InventoryOf(nd, nb, sv, rep)
    /\ ids = UnsavedIds(inventory)
    /\ db \in {EmptyDb, OldDb}
    /\ db_before = db
    /\ store_op = "idle"
    /\ store_pc = 1
    /\ store_i = 1
    /\ version_id_map = << >>
    /\ store_error = "none"
    /\ save_result = "none"
    /\ loaded = EmptyInventory
    /\ LinksIdle
    /\ InfoIdle
    /\ MutateIdle
    /\ RestIdle
    /\ SchedIdle
    /\ EnfIdle
    /\ PolicyIdle

NextStore ==
    \/ StartSave
    \/ DropTableIfExists
    \/ CreateTableLike
    \/ DropTable
    \/ RenameTable
    \/ InsertGroup
    \/ InsertSite
    \/ InsertVersions
    \/ SelectVersions
    \/ InsertDataset
    \/ RaiseKeyError
    \/ InsertBlock
    \/ InsertDatasetReplicas
    \/ InsertBlockReplicas
    \/ RaiseAttributeError
    \/ QueryFails
    \/ StartLoad
    \/ _load_groups
    \/ _load_sites
    \/ _load_datasets
    \/ _load_blocks
    \/ _load_replicas
    \/ UnknownColumn

SpecStore == InitStore /\ [][NextStore]_vars

(***************************************************************************)
(* Properties of the store.                                                *)
(***************************************************************************)
\* the graph's observable content: every entity without its id
Graph(inv) ==
    [groups |-> {[name |-> g.name, olevel |-> g.olevel] : g \in inv.groups},
     sites |-> {[name |-> x.name, host |-> x.host, storage_type |-> x.storage_type,
                 backend |-> x.backend, status |-> x.status] : x \in inv.sites},
     datasets |-> {[name |-> d.name, size |-> d.size, num_files |-> d.num_files,
                    status |-> d.status, data_type |-> d.data_type,
                    software_version |-> d.software_version,
                    last_update |-> d.last_update, is_open |-> d.is_open]
                     : d \in inv.datasets},
     blocks |-> {[dataset |-> b.dataset, name |-> b.name, size |-> b.size,
                  num_files |-> b.num_files, is_open |-> b.is_open,
                  last_update |-> b.last_update] : b \in inv.blocks},
     dreps |-> inv.dreps,
     breps |-> inv.breps]

\* the rows of table t that a snapshot of the inventory holds, ids left out
Snapshot(t) ==
    CASE t = "groups" ->
           {[name |-> g.name, olevel |-> g.olevel]
              : g \in {x \in inventory.groups : x.name # NULL}}
      [] t = "sites" -> Graph(inventory).sites
      [] t = "software_versions" -> software_versions \ {NoneVersion}
      [] t = "datasets" -> {d.name : d \in inventory.datasets}
      [] t = "blocks" -> {<<b.dataset, real_name(b.name)>> : b \in inventory.blocks}
      [] t = "dataset_replicas" -> {<<r.dataset, r.site>> : r \in inventory.dreps}
      [] t = "block_replicas" ->
           {<<r.dataset, r.block, r.site>> : r \in inventory.breps}
      [] OTHER ->
           {<<r.dataset, r.block, r.site, r.size>>
              : r \in {x \in inventory.breps :
                        \E b \in inventory.blocks :
                           b.dataset = x.dataset /\ b.name = x.block /\ b.size # x.size}}

NameOfId(kind, id) ==
    IF \E n \in DOMAIN ids[kind] : ids[kind][n] = id
    THEN CHOOSE n \in DOMAIN ids[kind] : ids[kind][n] = id
    ELSE <<"no such id", id>>

\* the same view of the rows table t holds
Content(t) ==
    IF ~HasSchema(t, t) THEN {"no such table"}
    ELSE LET rows == db[t].rows IN
    CASE t = "groups" -> {[name |-> r.name, olevel |-> r.olevel] : r \in rows}
      [] t = "sites" ->
           {[name |-> r.name, host |-> r.host, storage_type |-> r.storage_type,
             backend |-> r.backend, status |-> r.status] : r \in rows}
      [] t = "software_versions" -> {r.version : r \in rows}
      [] t = "datasets" -> {r.name : r \in rows}
      [] t = "blocks" -> {<<NameOfId("datasets", r.dataset_id), r.name>> : r \in rows}
      [] t = "dataset_replicas" ->
           {<<NameOfId("datasets", r.dataset_id), NameOfId("sites", r.site_id)>>
              : r \in rows}
      [] t = "block_replicas" ->
           {<<NameOfId("blocks", r.block_id)[1], NameOfId("blocks", r.block_id)[2],
              NameOfId("sites", r.site_id)>> : r \in rows}
      [] OTHER ->
           {<<NameOfId("blocks", r.block_id)[1], NameOfId("blocks", r.block_id)[2],
              NameOfId("sites", r.site_id), r.size>> : r \in rows}

RowCountsMatch ==
    \A t \in LiveTables \ {"software_versions"} :
       /\ db[t].exists
       /\ Cardinality(db[t].rows) = Cardinality(Snapshot(t))

\* C1: save_data followed by load_data into an empty inventory reproduces the
\* graph modulo ids: after save_data the tables hold one row per entity of the
\* inventory, and the load that follows fails only when the server fails a query
\* and otherwise ends with the saved graph.
C1_SaveLoadRoundTrip ==
    /\ store_op = "saved" => RowCountsMatch
    /\ (store_op = "load_failed" /\ save_result = "ok") => store_error = "StoreError"
    /\ (store_op = "loaded" /\ save_result = "ok") => Graph(loaded) = Graph(inventory)

\* C2: in every intermediate state of save_data each live table exists and holds
\* its complete pre-save content or the complete new snapshot, and the snapshot is
\* written into T_tmp, a table with T's columns.
C2_LiveTablesWholeDuringSave ==
    store_op = "save" =>
       \A t \in LiveTables :
          /\ db[t].exists
          /\ db[t].rows = db_before[t].rows \/ Content(t) = Snapshot(t)
          /\ db[TmpOf[t]].exists => db[TmpOf[t]].schema = db_before[t].schema

\* the rows block_replica_sizes has to hold for the inventory: one for every
\* block replica whose size is not the size of its block
SizeRowsOf(inv) ==
    LET block(r) == CHOOSE b \in inv.blocks : b.dataset = r.dataset /\ b.name = r.block
    IN  {[block_id |-> ids.blocks[<<r.dataset, r.block>>],
          site_id |-> ids.sites[r.site], size |-> r.size]
           : r \in {x \in inv.breps : x.size # block(x).size}}

\* C35: after save_data (no query of which failed, and which got as far as
\* the replicas) the store has a block_replica_sizes row for (block, site) if
\* and only if the size of that block replica differs from the size of its
\* block.
C35_SizeRowsIffSizeDiffers ==
    (store_op \in {"saved", "save_failed"}
     /\ store_error \notin {"StoreError", "KeyError"}) =>
       /\ db["block_replica_sizes"].exists
       /\ db["block_replica_sizes"].rows = SizeRowsOf(inventory)

RenameIndex(t) ==
    CHOOSE k \in 1..Len(SaveProgram) :
       SaveProgram[k].op = "rename" /\ SaveProgram[k].u = t

\* C3: when a query of save_data fails, every live table whose swap was not
\* committed holds exactly the rows it had before save_data started.
C3_FailedSaveKeepsLiveTables ==
    (store_op = "save_failed" /\ store_error = "StoreError") =>
       \A t \in LiveTables :
          store_pc <= RenameIndex(t) =>
             /\ db[t].exists
             /\ db[t].rows = db_before[t].rows

(***************************************************************************)
(* make_replica_links: the replica catalog is queried per site and per     *)
(* range of first characters, or once with a restricted dataset filter,    *)
(* and every exec_get call merges what it got in three passes.             *)
(***************************************************************************)
\* the keys of the groups map
LocalGroups == {"G1", "G2"}

\* all_sites and gname_list with site_filt = group_filt = '*'
all_sites == <<"S1", "S2">>

gname_list == Order(GroupOrder, LocalGroups)

characters ==
    <<"a", "A", "b", "B", "c", "C", "d", "D", "e", "E", "f", "F", "g", "G",
      "h", "H", "i", "I", "j", "J", "k", "K", "l", "L", "m", "M", "n", "N",
      "o", "O", "p", "P", "q", "Q", "r", "R", "s", "S", "t", "T", "u", "U",
      "v", "V", "w", "W", "x", "X", "y", "Y", "z", "Z", "0", "1", "2", "3",
      "4", "5", "6", "7", "8", "9">>

NumChars == 62

ChunkQuota == 500

Max(a, b) == IF a > b THEN a ELSE b

Min(a, b) == IF a < b THEN a ELSE b

chunk_size(total_quota) == Max(NumChars \div (total_quota \div 100), 1)

charsets(total_quota) ==
    LET cs == chunk_size(total_quota)
        n == (NumChars + cs - 1) \div cs
    IN  [k \in 1..n |-> SubSeq(characters, (k - 1) * cs + 1, Min(k * cs, NumChars))]

\* dataset name patterns: '/*/*/*', '/c*/*/*' and a full name
AnyDataset == [first |-> "*", name |-> "*"]

FirstCharPattern(c) == [first |-> c, name |-> "*"]

NamePattern(n) == [first |-> "*", name |-> n]

FirstChar == [n \in Range(DatasetOrder) |->
                 IF n = "/a/p/t" THEN "a" ELSE IF n = "/g/p/t" THEN "g" ELSE "m"]

Matches(p, n) ==
    /\ p.first = "*" \/ p.first = FirstChar[n]
    /\ p.name = "*" \/ p.name = n

\* the (site_list, gname_list, dname_list) arguments of the exec_get calls
items(filt, quota) ==
    IF filt = AnyDataset
    THEN Concat([k \in 1..Len(all_sites) |->
            LET site == all_sites[k]
                total_quota == quota[site]
                cs == charsets(total_quota)
            IN  IF total_quota >= ChunkQuota
                THEN [j \in 1..Len(cs) |->
                        [site_list |-> <<site>>,
                         dname_list |-> [i \in 1..Len(cs[j]) |-> FirstCharPattern(cs[j][i])]]]
                ELSE <<[site_list |-> <<site>>, dname_list |-> <<AnyDataset>>]>>])
    ELSE <<[site_list |-> all_sites, dname_list |-> <<filt>>]>>

\* the answer of the replica catalog to blockreplicas?node=..&dataset=..:
\* the datasets, their blocks and the replicas of these at the nodes asked for
Response(site_list, dname_list) ==
    LET hits == {r \in remote :
                   /\ r.node \in Range(site_list)
                   /\ \E k \in 1..Len(dname_list) : Matches(dname_list[k], r.dataset)}
        dnames == Order(DatasetOrder, {r.dataset : r \in hits})
        bnames(d) == Order(BlockOrder, {r.block : r \in {x \in hits : x.dataset = d}})
        reps(d, b) ==
            LET S == {r \in hits : r.dataset = d /\ r.block = b}
                nodes == Order(SiteOrder, {r.node : r \in S})
            IN  [k \in 1..Len(nodes) |->
                   LET r == CHOOSE x \in S : x.node = nodes[k]
                   IN  [node |-> r.node, group |-> r.group, complete |-> r.complete,
                        custodial |-> r.custodial, bytes |-> r.bytes,
                        time_update |-> r.time_update]]
    IN  [k \in 1..Len(dnames) |->
           [name |-> dnames[k],
            block |-> [j \in 1..Len(bnames(dnames[k])) |->
                         [name |-> <<dnames[k], real_name(bnames(dnames[k])[j])>>,
                          bytes |-> 10, files |-> 1,
                          replica |-> reps(dnames[k], bnames(dnames[k])[j])]]]]

(***************************************************************************)
(* Pass 1 (under the lock): the datasets and blocks of the answer          *)
(***************************************************************************)
block_name(block_entry) == to_internal_name(block_entry.name[2])

RECURSIVE AddBlocks(_, _, _)
AddBlocks(blocks, entries, new_dataset) ==
    IF entries = << >> THEN blocks
    ELSE LET e == Head(entries)
             found == /\ ~new_dataset
                      /\ \E k \in 1..Len(blocks) : blocks[k].name = block_name(e)
         IN  AddBlocks(IF found THEN blocks
                       ELSE Append(blocks, [name |-> block_name(e), size |-> e.bytes,
                                            num_files |-> e.files, is_open |-> FALSE]),
                       Tail(entries), new_dataset)

\* a Pass 1 that never looks the dataset up: every dataset entry of the answer
\* makes a new Dataset, which takes the place of the one in the map
RECURSIVE Pass1DatasetsWithoutLookup(_, _)
Pass1DatasetsWithoutLookup(ds, source) ==
    IF source = << >> THEN ds
    ELSE LET e == Head(source)
             filled == [blocks |-> AddBlocks(<< >>, e.block, TRUE), replicas |-> << >>]
         IN  Pass1DatasetsWithoutLookup([n \in DOMAIN ds \cup {e.name} |->
                                           IF n = e.name THEN filled ELSE ds[n]],
                                        Tail(source))

RECURSIVE Pass1Datasets(_, _)
Pass1Datasets(ds, source) ==
    IF source = << >> THEN ds
    ELSE LET e == Head(source)
             new_dataset == e.name \notin DOMAIN ds
             dataset == IF new_dataset THEN [blocks |-> << >>, replicas |-> << >>]
                        ELSE ds[e.name]
             filled == [dataset EXCEPT !.blocks = AddBlocks(@, e.block, new_dataset)]
         IN  Pass1Datasets([n \in DOMAIN ds \cup {e.name} |->
                              IF n = e.name THEN filled ELSE ds[n]],
                           Tail(source))

dataset_array(source) == [k \in 1..Len(source) |-> source[k].name]

block_array(source) ==
    Concat([k \in 1..Len(source) |->
              [j \in 1..Len(source[k].block) |->
                 <<source[k].name, block_name(source[k].block[j])>>]])

(***************************************************************************)
(* Pass 2 (no lock): the replicas of the answer, local to the call         *)
(***************************************************************************)
\* the Block object a block_array entry refers to
BlockObj(ref) ==
    LET bs == datasets[ref[1]].blocks
    IN  bs[CHOOSE k \in 1..Len(bs) : bs[k].name = ref[2]]

\* the replica entries of one dataset entry that pass "group in gname_list",
\* in the order of the double loop, each with the index of its block
KeptEntries(entry) ==
    Concat([j \in 1..Len(entry.block) |->
              SelectSeq([i \in 1..Len(entry.block[j].replica) |->
                           [b |-> j, r |-> entry.block[j].replica[i]]],
                        LAMBDA x : x.r.group \in Range(gname_list))])

\* a lookup that never finds the site: one DatasetReplica per replica entry
SitesSeenWithoutLookup(nodes) == nodes

\* the keys of the local dataset_replicas dict in the order they were added
RECURSIVE SitesSeen(_)
SitesSeen(nodes) ==
    IF nodes = << >> THEN << >>
    ELSE LET before == SitesSeen(SubSeq(nodes, 1, Len(nodes) - 1))
             site == nodes[Len(nodes)]
         IN  IF site \in Range(before) THEN before ELSE Append(before, site)

GroupOfEntry(r) ==
    IF r.group # NULL
    THEN IF r.group \in LocalGroups THEN r.group ELSE NULL
    ELSE NULL

MaxOf(S) == CHOOSE x \in S : \A y \in S : y <= x

\* the DatasetReplica objects made for dataset entry k of the source;
\* offset is barray_entry at the start of the entry
ReplicasOfEntry(source, k, offset) ==
    LET entry == source[k]
        kept == KeptEntries(entry)
        seen == SitesSeen([i \in 1..Len(kept) |-> kept[i].r.node])
        BlockReplica(x) ==
            LET block == BlockObj(block_array(source)[offset + x.b])
            IN  [block |-> block_array(source)[offset + x.b],
                 site |-> x.r.node,
                 group |-> GroupOfEntry(x.r),
                 is_complete |-> (x.r.complete = "y" \/ x.r.bytes < block.size),
                 is_custodial |-> (x.r.custodial = "y"),
                 size |-> x.r.bytes]
        DatasetReplica(site) ==
            LET mine == SelectSeq(kept, LAMBDA x : x.r.node = site)
                brs == [i \in 1..Len(mine) |-> BlockReplica(mine[i])]
            IN  [id |-> << >>,
                 dataset |-> dataset_array(source)[k],
                 site |-> site,
                 is_complete |-> \A i \in 1..Len(brs) : brs[i].is_complete,
                 is_partial |-> FALSE,
                 is_custodial |-> \E i \in 1..Len(brs) : brs[i].is_custodial,
                 last_block_created |->
                     MaxOf({0} \cup {mine[i].r.time_update : i \in 1..Len(mine)}),
                 group |-> NULL,
                 block_replicas |-> brs]
    IN  [i \in 1..Len(seen) |-> DatasetReplica(seen[i])]

NewReplicas(w, source) ==
    LET offset(k) == Len(block_array(SubSeq(source, 1, k - 1)))
        made == Concat([k \in 1..Len(source) |-> ReplicasOfEntry(source, k, offset(k))])
    IN  [i \in 1..Len(made) |-> [made[i] EXCEPT !.id = <<w, i>>]]

\* the value of the local variable site after the loops of Pass 2
LastSite(source, site) ==
    LET kept == Concat([k \in 1..Len(source) |-> KeptEntries(source[k])])
    IN  IF kept = << >> THEN site ELSE kept[Len(kept)].r.node

(***************************************************************************)
(* The steps of make_replica_links.                                        *)
(***************************************************************************)
Worker(item) ==
    [site_list |-> item.site_list, dname_list |-> item.dname_list, pc |-> "request",
     source |-> << >>, dataset_array |-> << >>, block_array |-> << >>,
     new_replicas |-> << >>, site |-> NULL]

\* the call: the watch set and the items; the exec_get calls start
make_replica_links ==
    /\ links_pc = "idle"
    /\ datasets_without_replicas' = DOMAIN datasets
    /\ workers' = [w \in 1..Len(items(dataset_filt, group_quota)) |->
                     Worker(items(dataset_filt, group_quota)[w])]
    /\ links_pc' = "exec"
    /\ UNCHANGED <<datasets, site_dataset_replicas, site_block_replicas, replica_objs,
                   unlinked, remote, group_quota, dataset_filt, datasets_before>>
    /\ UNCHANGED <<dataset_info, lock>>
    /\ UNCHANGED notLinks

AtWorker(w, pc) == links_pc = "exec" /\ workers[w].pc = pc

\* the request of one exec_get call is answered; with an empty answer the loops
\* of the three passes have nothing to go through
Request(w) ==
    /\ AtWorker(w, "request")
    /\ LET source == Response(workers[w].site_list, workers[w].dname_list)
       IN  workers' = [workers EXCEPT ![w] =
                         [@ EXCEPT !.source = source,
                                   !.site = workers[w].site_list[Len(workers[w].site_list)],
                                   !.pc = IF source = << >> THEN "done" ELSE "pass1"]]
    /\ UNCHANGED <<datasets, site_dataset_replicas, site_block_replicas, replica_objs,
                   datasets_without_replicas, unlinked, links_pc, remote, group_quota,
                   dataset_filt, datasets_before>>
    /\ UNCHANGED <<dataset_info, lock>>
    /\ UNCHANGED notLinks

\* the request fails after the REST client's attempts: the executor logs the
\* failure of a parallel call; a direct call raises out of make_replica_links
RequestFails(w) ==
    /\ AtWorker(w, "request")
    /\ workers' = [workers EXCEPT ![w].pc = "failed"]
    /\ links_pc' = IF dataset_filt = AnyDataset THEN links_pc ELSE "raised"
    /\ UNCHANGED <<datasets, site_dataset_replicas, site_block_replicas, replica_objs,
                   datasets_without_replicas, unlinked, remote, group_quota,
                   dataset_filt, datasets_before>>
    /\ UNCHANGED <<dataset_info, lock>>
    /\ UNCHANGED notLinks

\* a thread that enters "with lock" while another one is inside
AcquirableAnyTime(locked) == TRUE

\* Lock.acquire goes through when the lock is not held
Acquirable(locked) == ~locked

\* the positions of a worker inside a "with lock" block
Locked == {"pass1_locked", "pass3_locked"}

\* with lock: the worker waits until the lock is free and takes it
AcquireLock(w) ==
    /\ links_pc = "exec"
    /\ workers[w].pc \in {"pass1", "pass3"}
    /\ Acquirable(lock)
    /\ lock' = TRUE
    /\ workers' = [workers EXCEPT ![w].pc =
                     IF @ = "pass1" THEN "pass1_locked" ELSE "pass3_locked"]
    /\ UNCHANGED <<datasets, site_dataset_replicas, site_block_replicas, replica_objs,
                   datasets_without_replicas, unlinked, links_pc, remote, group_quota,
                   dataset_filt, datasets_before, dataset_info>>
    /\ UNCHANGED notLinks

\* Pass 1 (under the lock, released at the end of the block): the datasets
\* and blocks of the answer are looked up or made
Pass1(w) ==
    /\ AtWorker(w, "pass1_locked")
    /\ lock' = FALSE
    /\ datasets' = Pass1Datasets(datasets, workers[w].source)
    /\ workers' = [workers EXCEPT ![w] =
                     [@ EXCEPT !.dataset_array = dataset_array(workers[w].source),
                               !.block_array = block_array(workers[w].source),
                               !.pc = "pass2"]]
    /\ UNCHANGED <<site_dataset_replicas, site_block_replicas, replica_objs,
                   datasets_without_replicas, unlinked, links_pc, remote, group_quota,
                   dataset_filt, datasets_before>>
    /\ UNCHANGED dataset_info
    /\ UNCHANGED notLinks

Pass2(w) ==
    /\ AtWorker(w, "pass2")
    /\ workers' = [workers EXCEPT ![w] =
                     [@ EXCEPT !.new_replicas = NewReplicas(w, workers[w].source),
                               !.site = LastSite(workers[w].source, @),
                               !.pc = "pass3"]]
    /\ UNCHANGED <<datasets, site_dataset_replicas, site_block_replicas, replica_objs,
                   datasets_without_replicas, unlinked, links_pc, remote, group_quota,
                   dataset_filt, datasets_before>>
    /\ UNCHANGED <<dataset_info, lock>>
    /\ UNCHANGED notLinks

\* Pass 3 (under the lock): the new replicas go into the graph
Pass3(w) ==
    /\ AtWorker(w, "pass3_locked")
    /\ lock' = FALSE
    /\ LET new_replicas == workers[w].new_replicas
           site == workers[w].site
           of(d) == SelectSeq(new_replicas, LAMBDA r : r.dataset = d)
       IN  /\ datasets' = [d \in DOMAIN datasets |->
                             [datasets[d] EXCEPT !.replicas =
                                @ \o [i \in 1..Len(of(d)) |-> of(d)[i].id]]]
           /\ site_dataset_replicas' =
                [site_dataset_replicas EXCEPT ![site] =
                   @ \o [i \in 1..Len(new_replicas) |-> new_replicas[i].id]]
           /\ site_block_replicas' =
                [site_block_replicas EXCEPT ![site] =
                   @ \cup UNION {{<<new_replicas[i].id, j>> :
                                    j \in 1..Len(new_replicas[i].block_replicas)} :
                                   i \in 1..Len(new_replicas)}]
           /\ replica_objs' =
                [id \in DOMAIN replica_objs \cup
                        {new_replicas[i].id : i \in 1..Len(new_replicas)} |->
                   IF id \in DOMAIN replica_objs THEN replica_objs[id]
                   ELSE new_replicas[id[2]]]
           /\ datasets_without_replicas' =
                datasets_without_replicas \
                   {new_replicas[i].dataset : i \in 1..Len(new_replicas)}
    /\ workers' = [workers EXCEPT ![w].pc = "done"]
    /\ UNCHANGED <<unlinked, links_pc, remote, group_quota, dataset_filt, datasets_before>>
    /\ UNCHANGED dataset_info
    /\ UNCHANGED notLinks

\* all calls are over: the datasets left in the watch set are dropped
RemoveDatasetsWithoutReplicas ==
    /\ links_pc = "exec"
    /\ \A w \in DOMAIN workers : workers[w].pc \in {"done", "failed"}
    /\ datasets' = [d \in DOMAIN datasets \ datasets_without_replicas |-> datasets[d]]
    /\ unlinked' = unlinked \cup datasets_without_replicas
    /\ links_pc' = "joined"
    /\ UNCHANGED <<site_dataset_replicas, site_block_replicas, replica_objs,
                   datasets_without_replicas, workers, remote, group_quota,
                   dataset_filt, datasets_before>>
    /\ UNCHANGED <<dataset_info, lock>>
    /\ UNCHANGED notLinks

\* a merge that takes the owner of the first block replica
MergedGroupOfFirst(group, brs) ==
    IF brs = << >> THEN group ELSE Head(brs).group

RECURSIVE MergedGroup(_, _)
MergedGroup(group, brs) ==
    IF brs = << >> THEN group
    ELSE IF group = NULL
         THEN MergedGroup(Head(brs).group, Tail(brs))
         ELSE IF Head(brs).group # group THEN NULL
              ELSE MergedGroup(group, Tail(brs))

\* is_partial and group of every dataset replica listed at a site
MergeGroupInformation ==
    /\ links_pc = "joined"
    /\ LET listed == UNION {Range(site_dataset_replicas[all_sites[k]]) :
                              k \in 1..Len(all_sites)}
           merged(replica) ==
               [replica EXCEPT
                  !.is_partial = IF Len(replica.block_replicas) #
                                     Len(datasets[replica.dataset].blocks)
                                 THEN TRUE ELSE @,
                  !.group = MergedGroup(@, replica.block_replicas)]
       IN  replica_objs' = [id \in DOMAIN replica_objs |->
                              IF id \in listed THEN merged(replica_objs[id])
                              ELSE replica_objs[id]]
    /\ links_pc' = "done"
    /\ UNCHANGED <<datasets, site_dataset_replicas, site_block_replicas,
                   datasets_without_replicas, unlinked, workers, remote, group_quota,
                   dataset_filt, datasets_before>>
    /\ UNCHANGED <<dataset_info, lock>>
    /\ UNCHANGED notLinks

(***************************************************************************)
(* set_dataset_constituent_info on the datasets of the map, after          *)
(* make_replica_links                                                      *)
(***************************************************************************)
\* what the "data" call of the catalog answers: it raises, it has no dataset,
\* it has the blocks of the replica catalog, or these and a third block, which
\* it may flag as open for more than 48 hours
DataAnswers == {"raise", "nothing", "same", "more", "more_open"}

\* what the "blocks" call of the dataset catalog says of a block flagged open
DbsAnswers == {"open", "closed"}

\* the block entries of the dataset entry of the answer
DataBlockEntries(d, answer) ==
    LET names == (IF d = "/a/p/t" THEN <<"b1", "b2">> ELSE <<"b1">>)
                 \o (IF answer \in {"more", "more_open"} THEN <<"b3">> ELSE << >>)
    IN  [k \in 1..Len(names) |->
           [name |-> <<d, real_name(names[k])>>, bytes |-> 10, files |-> 1,
            is_open |-> IF names[k] = "b3" /\ answer = "more_open" THEN "y" ELSE "n",
            old |-> names[k] = "b3"]]

\* block = dataset.find_block(block_name); if block is None: .. blocks.append
RECURSIVE AddConstituents(_, _)
AddConstituents(blocks, entries) ==
    IF entries = << >> THEN blocks
    ELSE LET e == Head(entries)
             found == \E k \in 1..Len(blocks) : blocks[k].name = block_name(e)
         IN  AddConstituents(IF found THEN blocks
                             ELSE Append(blocks, [name |-> block_name(e), size |-> e.bytes,
                                                  num_files |-> e.files, is_open |-> FALSE]),
                             Tail(entries))

\* dbs_check of the open blocks: the block is replaced by an open clone
RECURSIVE WithOpenClones(_, _)
WithOpenClones(blocks, open_blocks) ==
    IF open_blocks = << >> THEN blocks
    ELSE LET name == Head(open_blocks)
             block == CHOOSE b \in Range(blocks) : b.name = name
         IN  WithOpenClones(Append(SelectSeq(blocks, LAMBDA b : b.name # name),
                                   [block EXCEPT !.is_open = TRUE]),
                            Tail(open_blocks))

STAT_UNKNOWN == "UNKNOWN"

STAT_VALID == "VALID"

STAT_PRODUCTION == "PRODUCTION"

set_dataset_constituent_info ==
    /\ links_pc = "done"
    /\ DOMAIN datasets # {}
    /\ \E answer \in DataAnswers, dbs \in DbsAnswers :
          LET entries(d) == DataBlockEntries(d, answer)
              open_blocks(d) ==
                  LET flagged == SelectSeq(entries(d), LAMBDA e : e.is_open = "y" /\ e.old)
                  IN  [k \in 1..Len(flagged) |-> block_name(flagged[k])]
              constituents(d) == AddConstituents(datasets[d].blocks, entries(d))
              total(blocks, field) ==
                  SumOver(1..Len(blocks), [k \in 1..Len(blocks) |-> blocks[k][field]])
          IN  /\ dbs = "open" \/ answer = "more_open"
              /\ IF answer = "raise"
                 THEN /\ links_pc' = "constituents_raised"
                      /\ UNCHANGED <<datasets, dataset_info>>
                 ELSE /\ links_pc' = "constituents"
                      /\ datasets' =
                            [d \in DOMAIN datasets |->
                               IF answer = "nothing" THEN datasets[d]
                               ELSE [datasets[d] EXCEPT
                                       !.blocks = IF dbs = "open"
                                                  THEN WithOpenClones(constituents(d),
                                                                      open_blocks(d))
                                                  ELSE constituents(d)]]
                      /\ dataset_info' =
                            [d \in DOMAIN datasets |->
                               IF answer = "nothing"
                               THEN [is_open |-> FALSE, status |-> STAT_UNKNOWN,
                                     size |-> 0, num_files |-> 0]
                               ELSE [is_open |-> TRUE,
                                     status |-> IF dbs = "open" /\ open_blocks(d) # << >>
                                                THEN STAT_PRODUCTION ELSE STAT_VALID,
                                     size |-> total(constituents(d), "size"),
                                     num_files |-> total(constituents(d), "num_files")]]
    /\ UNCHANGED <<site_dataset_replicas, site_block_replicas, replica_objs,
                   datasets_without_replicas, unlinked, workers, remote, group_quota,
                   dataset_filt, datasets_before, lock>>
    /\ UNCHANGED notLinks

(***************************************************************************)
(* The specification of make_replica_links: a replica catalog, a datasets  *)
(* map without replica information, and one call.                          *)
(***************************************************************************)
RemoteReplica(d, b, s, g, c, bytes) ==
    [dataset |-> d, block |-> b, node |-> s, group |-> g, complete |-> c,
     custodial |-> "n", bytes |-> bytes, time_update |-> 100]

\* /a/p/t has two blocks at the sites pa, the second owned by gsel and short at
\* S2; /g/p/t has one block at the sites pg, owned by ggrp
RemoteOf(pa, pg, gsel, ggrp) ==
    {RemoteReplica("/a/p/t", "b1", s, "G1", "y", 10) : s \in pa}
    \cup {RemoteReplica("/a/p/t", "b2", s, gsel,
                        IF s = "S2" THEN "n" ELSE "y", IF s = "S2" THEN 5 ELSE 10)
            : s \in pa}
    \cup {RemoteReplica("/g/p/t", "b1", s, ggrp, "y", 10) : s \in pg}

PlacementsA == {{"S1"}, {"S1", "S2"}}

PlacementsG == {{}, {"S1"}}

RemoteGroups == {"G1", "G2", "GX", NULL}

\* the owner of the block of /g/p/t: a group of the groups map, or one that
\* gname_list does not have
OwnersOfG == {"G1", "GX"}

KnownDatasets == {{}, {"/a/p/t", "/g/p/t"}}

Quotas == {[s \in Range(all_sites) |-> 100],
           [s \in Range(all_sites) |-> IF s = "S1" THEN 500 ELSE 100]}

\* a dataset known before the call, with its first block and no replicas
KnownDataset ==
    [blocks |-> <<[name |-> "b1", size |-> 10, num_files |-> 1, is_open |-> FALSE]>>,
     replicas |-> << >>]

\* the calls checked: an unrestricted filter with small quotas (one exec_get per
\* site), an unrestricted filter with S1 over the chunking quota (S1 is queried
\* in ranges of first characters; only with the owner G1 and known datasets),
\* and a restricted filter (one exec_get for all sites)
Calls ==
    {[quota |-> q, filt |-> AnyDataset] : q \in Quotas}
    \cup {[quota |-> [s \in Range(all_sites) |-> 100], filt |-> NamePattern("/a/p/t")]}

InitLinks ==
    /\ GenIdle
    /\ StatusIdle
    /\ LoadIdle
    /\ WalkIdle
    /\ StoreIdle
    /\ InfoIdle
    /\ MutateIdle
    /\ RestIdle
    /\ SchedIdle
    /\ EnfIdle
    /\ PolicyIdle
    /\ \E pa \in PlacementsA, pg \in PlacementsG, gsel \in RemoteGroups,
          ggrp \in OwnersOfG,
          known \in KnownDatasets, call \in Calls :
          /\ call.quota["S1"] >= ChunkQuota => (gsel = "G1" /\ known # {})
          /\ ggrp # "G1" => (pg # {} /\ gsel = "G1")
          /\ remote = RemoteOf(pa, pg, gsel, ggrp)
          /\ datasets = [n \in known |-> KnownDataset]
          /\ group_quota = call.quota
          /\ dataset_filt = call.filt
    /\ datasets_before = DOMAIN datasets
    /\ site_dataset_replicas = [s \in Range(all_sites) |-> << >>]
    /\ site_block_replicas = [s \in Range(all_sites) |-> {}]
    /\ replica_objs = << >>
    /\ datasets_without_replicas = {}
    /\ unlinked = {}
    /\ workers = << >>
    /\ links_pc = "idle"
    /\ dataset_info = << >>
    /\ lock = FALSE

NextLinks ==
    \/ make_replica_links
    \/ \E w \in DOMAIN workers : Request(w)
    \/ \E w \in DOMAIN workers : RequestFails(w)
    \/ \E w \in DOMAIN workers : AcquireLock(w)
    \/ \E w \in DOMAIN workers : Pass1(w)
    \/ \E w \in DOMAIN workers : Pass2(w)
    \/ \E w \in DOMAIN workers : Pass3(w)
    \/ RemoveDatasetsWithoutReplicas
    \/ MergeGroupInformation
    \/ set_dataset_constituent_info

SpecLinks == InitLinks /\ [][NextLinks]_vars

(***************************************************************************)
(* Properties of make_replica_links.                                       *)
(***************************************************************************)
\* the DatasetReplica objects reachable from the datasets map or from a site
GraphReplicas ==
    UNION {Range(datasets[d].replicas) : d \in DOMAIN datasets}
    \cup UNION {Range(site_dataset_replicas[s]) : s \in DOMAIN site_dataset_replicas}

\* C4: after make_replica_links on an inventory without replica information, for
\* every interleaving of the exec_get calls, there is at most one DatasetReplica
\* per (dataset, site), and every BlockReplica is in exactly one DatasetReplica,
\* the one of its block's dataset and of its site.
C4_OneDatasetReplicaPerPair ==
    links_pc = "done" =>
       /\ \A i, j \in GraphReplicas :
             (/\ replica_objs[i].dataset = replica_objs[j].dataset
              /\ replica_objs[i].site = replica_objs[j].site) => i = j
       /\ \A i \in GraphReplicas :
             \A k \in 1..Len(replica_objs[i].block_replicas) :
                LET br == replica_objs[i].block_replicas[k]
                IN  /\ {j \in GraphReplicas :
                          /\ replica_objs[j].dataset = br.block[1]
                          /\ replica_objs[j].site = br.site} = {i}
                    /\ \A j \in GraphReplicas :
                          \A m \in 1..Len(replica_objs[j].block_replicas) :
                             (/\ replica_objs[j].block_replicas[m].block = br.block
                              /\ replica_objs[j].block_replicas[m].site = br.site)
                                => (j = i /\ m = k)

\* two exec_get calls gave replicas of one dataset, one of them with two blocks
C4_Witness ==
    /\ links_pc = "done"
    /\ \E i, j \in GraphReplicas :
          /\ i[1] # j[1]
          /\ replica_objs[i].dataset = replica_objs[j].dataset
          /\ Len(replica_objs[i].block_replicas) = 2

\* C5: after the splice of Pass 3, in every filter mode, every new DatasetReplica
\* is listed in the dataset_replicas of its own site and of no other site, and its
\* block replicas are registered with its own site.
C5_SplicedUnderOwnSite ==
    \A id \in DOMAIN replica_objs :
       /\ \A s \in Range(all_sites) :
             (id \in Range(site_dataset_replicas[s])) <=> (s = replica_objs[id].site)
       /\ \A k \in 1..Len(replica_objs[id].block_replicas) :
             <<id, k>> \in site_block_replicas[replica_objs[id].site]

\* the replicas the catalog has in the range of exec_get call w
InRange(r, w) ==
    /\ r.node \in Range(workers[w].site_list)
    /\ \E k \in 1..Len(workers[w].dname_list) : Matches(workers[w].dname_list[k], r.dataset)

\* C6: when the request of one chunk fails, the chunks that succeeded are merged
\* and no dataset whose replicas are all in the failed range is removed from the
\* datasets map or unlinked.
C6_FailedRangeUntouched ==
    links_pc = "done" =>
       /\ \A w \in DOMAIN workers :
             workers[w].pc = "done" =>
                \A i \in 1..Len(workers[w].new_replicas) :
                   <<w, i>> \in Range(datasets[workers[w].new_replicas[i].dataset].replicas)
       /\ \A w \in DOMAIN workers :
             workers[w].pc = "failed" =>
                \A d \in datasets_before :
                   (/\ \E r \in remote : r.dataset = d
                    /\ \A r \in remote : r.dataset = d => InRange(r, w))
                      => (d \in DOMAIN datasets /\ d \notin unlinked)

\* C7: a block replica the catalog reports with a group that is not a key of the
\* groups map is still created, with group null, and the group of its dataset
\* replica is null.
C7_UnknownGroupBecomesNull ==
    links_pc = "done" =>
       \A r \in remote :
          (/\ r.group # NULL
           /\ r.group \notin LocalGroups
           /\ \E w \in DOMAIN workers : workers[w].pc = "done" /\ InRange(r, w))
             => \E id \in GraphReplicas :
                   /\ replica_objs[id].dataset = r.dataset
                   /\ replica_objs[id].site = r.node
                   /\ replica_objs[id].group = NULL
                   /\ \E k \in 1..Len(replica_objs[id].block_replicas) :
                         /\ replica_objs[id].block_replicas[k].block = <<r.dataset, r.block>>
                         /\ replica_objs[id].block_replicas[k].group = NULL

\* C19: after make_replica_links, and after a later
\* set_dataset_constituent_info, every dataset replica has is_partial set if
\* and only if it has fewer block replicas than its dataset has blocks.
C19_PartialIffFewerBlocks ==
    links_pc \in {"done", "constituents"} =>
       \A id \in GraphReplicas :
          replica_objs[id].is_partial <=>
             (Len(replica_objs[id].block_replicas)
                < Len(datasets[replica_objs[id].dataset].blocks))

\* the owners of the block replicas of a dataset replica
Owners(id) ==
    {replica_objs[id].block_replicas[k].group
       : k \in 1..Len(replica_objs[id].block_replicas)}

\* C20: after make_replica_links the group of every dataset replica is the
\* common owner of its block replicas, and null when they have no common
\* owner (or no owner).
C20_GroupIsCommonOwner ==
    links_pc = "done" =>
       \A id \in GraphReplicas :
          /\ \A g \in LocalGroups : replica_objs[id].group = g <=> Owners(id) = {g}
          /\ (~\E g \in LocalGroups : Owners(id) = {g}) => replica_objs[id].group = NULL

\* one replica with block replicas of two owners, one with a single owner
C20_Witness ==
    /\ links_pc = "done"
    /\ \E i, j \in GraphReplicas :
          /\ Owners(i) = {"G1", "G2"}
          /\ replica_objs[i].group = NULL
          /\ Owners(j) = {"G1"}
          /\ replica_objs[j].group = "G1"

\* sum of one field of the blocks of a dataset
BlockTotal(blocks, field) ==
    SumOver(1..Len(blocks), [k \in 1..Len(blocks) |-> blocks[k][field]])

\* C21: after set_dataset_constituent_info, an operation that changes the block
\* sets, every dataset of the map, also one the catalog did not return, has
\* size equal to the sum of the sizes of its blocks and num_files equal to the
\* sum of their num_files.
C21_SizeIsSumOfBlocks ==
    links_pc = "constituents" =>
       \A d \in DOMAIN datasets :
          /\ dataset_info[d].size = BlockTotal(datasets[d].blocks, "size")
          /\ dataset_info[d].num_files = BlockTotal(datasets[d].blocks, "num_files")

\* C31: when make_replica_links returns, every dataset left in the datasets
\* map has at least one dataset replica, the datasets made in Pass 1 included,
\* also when the group filter skips every replica reported for a dataset.
C31_RemainingDatasetsHaveReplicas ==
    links_pc = "done" =>
       \A d \in DOMAIN datasets : datasets[d].replicas # << >>

\* the exec_get calls whose request was answered, in the order of the items
Answered == SelectSeq([w \in 1..Len(workers) |-> w], LAMBDA w : workers[w].pc = "done")

\* the datasets map after the Pass 1 of the first k answered calls, taken one
\* after the other in the order of the items
RECURSIVE Pass1InOrder(_)
Pass1InOrder(k) ==
    IF k = 0 THEN [n \in datasets_before |-> KnownDataset]
    ELSE Pass1Datasets(Pass1InOrder(k - 1), workers[Answered[k]].source)

\* the replicas the answered calls make of their answers
MadeReplicas ==
    UNION {Range(NewReplicas(Answered[k], workers[Answered[k]].source))
             : k \in 1..Len(Answered)}

\* the site a call splices its replicas under
SpliceSite(w) ==
    LastSite(workers[w].source, workers[w].site_list[Len(workers[w].site_list)])

\* the graph that the answers of the calls determine: the datasets that are
\* kept and those dropped, the blocks, and the replicas after the final merge
MergedGraph ==
    LET ds == Pass1InOrder(Len(Answered))
        dropped == datasets_before \ {r.dataset : r \in MadeReplicas}
        final(r) ==
            [r EXCEPT !.is_partial = IF Len(r.block_replicas) # Len(ds[r.dataset].blocks)
                                     THEN TRUE ELSE @,
                      !.group = MergedGroup(@, r.block_replicas)]
    IN  [names |-> DOMAIN ds \ dropped,
         dropped |-> dropped,
         blocks |-> [d \in DOMAIN ds \ dropped |-> Range(ds[d].blocks)],
         num_blocks |-> [d \in DOMAIN ds \ dropped |-> Len(ds[d].blocks)],
         replicas |-> [d \in DOMAIN ds \ dropped |->
                         {r.id : r \in {x \in MadeReplicas : x.dataset = d}}],
         objs |-> {final(r) : r \in MadeReplicas},
         at_site |-> [s \in Range(all_sites) |->
                        {r.id : r \in {x \in MadeReplicas : SpliceSite(x.id[1]) = s}}],
         blocks_at_site |->
            [s \in Range(all_sites) |->
               UNION {{<<r.id, j>> : j \in 1..Len(r.block_replicas)}
                        : r \in {x \in MadeReplicas : SpliceSite(x.id[1]) = s}}]]

\* the graph as make_replica_links leaves it, lists taken as sets
FinalGraph ==
    [names |-> DOMAIN datasets,
     dropped |-> unlinked,
     blocks |-> [d \in DOMAIN datasets |-> Range(datasets[d].blocks)],
     num_blocks |-> [d \in DOMAIN datasets |-> Len(datasets[d].blocks)],
     replicas |-> [d \in DOMAIN datasets |-> Range(datasets[d].replicas)],
     objs |-> {replica_objs[id] : id \in DOMAIN replica_objs},
     at_site |-> [s \in Range(all_sites) |-> Range(site_dataset_replicas[s])],
     blocks_at_site |-> site_block_replicas]

\* C28: the merge of make_replica_links is commutative: the final graph
\* (datasets map, blocks of each dataset, dataset and block replicas with
\* their attributes, datasets removed at the end) is the one the answers of
\* the calls determine, whatever the order in which the calls completed and
\* their locked passes were interleaved.
C28_MergeIsCommutative ==
    links_pc = "done" => FinalGraph = MergedGraph

\* two calls have put replicas of one dataset into the graph
C28_Witness ==
    /\ links_pc = "done"
    /\ \E r1 \in DOMAIN replica_objs, r2 \in DOMAIN replica_objs :
          /\ r1[1] # r2[1]
          /\ replica_objs[r1].dataset = replica_objs[r2].dataset
    /\ \E d \in DOMAIN datasets : Len(datasets[d].replicas) > 1

\* the state the exec_get calls share: the datasets map with the block and
\* replica lists, the replica lists of the sites, the replicas spliced in and
\* the watch set
SharedState ==
    <<datasets, site_dataset_replicas, site_block_replicas, replica_objs,
      datasets_without_replicas>>

LockHolders == {w \in DOMAIN workers : workers[w].pc \in Locked}

OnlyWorker(w) ==
    \A v \in DOMAIN workers : v # w => workers'[v] = workers[v]

\* a step of the exec_get calls changes shared state only as the step of a
\* worker inside a "with lock" block, and a Pass 2 step leaves it alone
LockedMutation ==
    (links_pc = "exec" /\ links_pc' = "exec") =>
       /\ SharedState' # SharedState =>
             \E w \in LockHolders : lock /\ workers'[w] # workers[w] /\ OnlyWorker(w)
       /\ \A w \in DOMAIN workers :
             (workers[w].pc = "pass2" /\ workers'[w] # workers[w]) =>
                /\ SharedState' = SharedState
                /\ OnlyWorker(w)
                /\ lock' = lock

\* C29: during make_replica_links every change of shared state by a worker is
\* made while that worker holds the lock, at most one worker holds the lock
\* at a time, and Pass 2 writes only to the worker's own replica objects.
C29_MutationsUnderLock ==
    /\ [](Cardinality(LockHolders) <= 1 /\ (LockHolders # {} => lock))
    /\ [][LockedMutation]_vars

\* a worker is in its locked Pass 3 while another one waits for the lock, and
\* replicas of an earlier Pass 3 are in the graph
C29_Witness ==
    /\ links_pc = "exec"
    /\ lock
    /\ replica_objs # << >>
    /\ \E w \in DOMAIN workers, v \in DOMAIN workers :
          /\ workers[w].pc = "pass3_locked"
          /\ workers[v].pc \in {"pass1", "pass3"}

(***************************************************************************)
(* RESTService.make_request: the request is opened until one attempt gets  *)
(* through or num_attempts attempts have raised.                           *)
(***************************************************************************)
MaxAttempts == 3

\* response bodies: JSON text of a value, and text that is not JSON
Contents == {<<"json", "A">>, <<"json", "B">>, <<"html", "Service Unavailable">>}

\* json.loads
IsJson(content) == content[1] = "json"

json_loads(content) == content[2]

\* what opener.open(request) can do: raise, or give a response to read
Answers ==
    {[kind |-> "HTTPError", message |-> "HTTP Error 500: Internal Server Error"],
     [kind |-> "URLError", message |-> "urlopen error timed out"]}
    \cup {[kind |-> "response", content |-> c] : c \in Contents}

\* the try block of one attempt runs to its return statement
Returns(answer) ==
    /\ answer.kind = "response"
    /\ accept = "application/json"
    /\ IsJson(answer.content)

\* sys.exc_info()[:2] of the exception the try block raises otherwise
exc_info(answer) ==
    IF answer.kind # "response" THEN <<answer.kind, answer.message>>
    ELSE IF accept = "application/json"
         THEN <<"ValueError", "No JSON object could be decoded">>
         ELSE <<"UnboundLocalError", "local variable 'result' referenced before assignment">>

\* a loop that allows one attempt more
LoopConditionOneMore(excs, n) == Len(excs) # n + 1

\* while len(exceptions) != config.webservice.num_attempts
LoopCondition(excs, n) == Len(excs) # n

\* the call, up to the loop
make_request ==
    /\ rest_pc = "idle"
    /\ exceptions' = << >>
    /\ rest_pc' = "loop"
    /\ UNCHANGED <<num_attempts, accept, server_log, rest_result, rest_error>>
    /\ UNCHANGED notRest

AttemptReturns ==
    /\ rest_pc = "loop"
    /\ LoopCondition(exceptions, num_attempts)
    /\ \E answer \in Answers :
          /\ Returns(answer)
          /\ server_log' = Append(server_log, answer)
          /\ rest_result' = json_loads(answer.content)
    /\ rest_pc' = "returned"
    /\ UNCHANGED <<num_attempts, accept, exceptions, rest_error>>
    /\ UNCHANGED notRest

AttemptRaises ==
    /\ rest_pc = "loop"
    /\ LoopCondition(exceptions, num_attempts)
    /\ \E answer \in Answers :
          /\ ~Returns(answer)
          /\ server_log' = Append(server_log, answer)
          /\ exceptions' = Append(exceptions, exc_info(answer))
    /\ UNCHANGED <<rest_pc, num_attempts, accept, rest_result, rest_error>>
    /\ UNCHANGED notRest

\* the else clause of the loop: the exceptions are logged, the RuntimeError has
\* the message as its only argument
TooManyAttempts ==
    /\ rest_pc = "loop"
    /\ ~LoopCondition(exceptions, num_attempts)
    /\ rest_error' = [type |-> "RuntimeError",
                      message |-> "webservice too many attempts",
                      exceptions |-> << >>]
    /\ rest_pc' = "raised"
    /\ UNCHANGED <<num_attempts, accept, exceptions, server_log, rest_result>>
    /\ UNCHANGED notRest

InitRest ==
    /\ GenIdle
    /\ StatusIdle
    /\ LoadIdle
    /\ WalkIdle
    /\ StoreIdle
    /\ InfoIdle
    /\ MutateIdle
    /\ LinksIdle
    /\ SchedIdle
    /\ EnfIdle
    /\ PolicyIdle
    /\ rest_pc = "idle"
    /\ num_attempts \in 0..MaxAttempts
    /\ accept \in {"application/json", "application/xml"}
    /\ exceptions = << >>
    /\ server_log = << >>
    /\ rest_result = NULL
    /\ rest_error = [type |-> NULL, message |-> NULL, exceptions |-> << >>]

NextRest ==
    \/ make_request
    \/ AttemptReturns
    \/ AttemptRaises
    \/ TooManyAttempts

SpecRest == InitRest /\ [][NextRest]_vars

(***************************************************************************)
(* Properties of make_request.                                             *)
(***************************************************************************)
\* C8: make_request makes at most num_attempts attempts, none after the first
\* attempt that got through, and returns the decoded body of that attempt.
C8_StopsAtFirstSuccess ==
    /\ Len(server_log) <= num_attempts
    /\ \A k \in 1..Len(server_log) :
          Returns(server_log[k]) =>
             /\ k = Len(server_log)
             /\ rest_pc = "returned"
             /\ rest_result = json_loads(server_log[k].content)
    /\ rest_pc = "returned" =>
          /\ server_log # << >>
          /\ Returns(server_log[Len(server_log)])

\* num_attempts = 3: two attempts raised, the third body is returned
C8_Witness ==
    /\ rest_pc = "returned"
    /\ num_attempts = 3
    /\ Len(exceptions) = 2
    /\ Len(server_log) = 3
    /\ rest_result = "B"

\* C9: when all num_attempts attempts raise, the error of the call carries the
\* (exception type, message) pairs of the attempts, one per attempt, in order.
C9_ErrorCarriesExceptions ==
    (rest_pc = "raised" /\ num_attempts > 0) =>
       /\ Len(rest_error.exceptions) = num_attempts
       /\ rest_error.exceptions = [k \in 1..Len(server_log) |-> exc_info(server_log[k])]

(***************************************************************************)
(* schedule_copy, schedule_copies, schedule_deletion, schedule_deletions   *)
(***************************************************************************)
BlockReplicaOf(d, b, s, g) ==
    [type |-> "BlockReplica", dataset |-> d, block |-> b, site |-> s, group |-> g,
     block_replicas |-> << >>]

DatasetReplicaOf(d, s, g, brs) ==
    [type |-> "DatasetReplica", dataset |-> d, block |-> NULL, site |-> s, group |-> g,
     block_replicas |-> brs]

\* the replicas of the calls: owned by G1, owned by two groups, owned by G2
DR1 == DatasetReplicaOf("/a/p/t", "S1", "G1",
          <<BlockReplicaOf("/a/p/t", "b1", "S1", "G1"),
            BlockReplicaOf("/a/p/t", "b2", "S1", "G1")>>)

DR2 == DatasetReplicaOf("/g/p/t", "S1", NULL,
          <<BlockReplicaOf("/g/p/t", "b1", "S1", "G1"),
            BlockReplicaOf("/g/p/t", "b2", "S1", "G2")>>)

DR3 == DatasetReplicaOf("/a/p/t", "S2", "G2",
          <<BlockReplicaOf("/a/p/t", "b1", "S2", "G2")>>)

BR1 == BlockReplicaOf("/a/p/t", "b1", "S1", "G1")

BR2 == BlockReplicaOf("/g/p/t", "b2", "S1", NULL)

\* replica.size(physical = False), in TB
size(replica) == IF replica.dataset = "/a/p/t" THEN 30 ELSE 20

\* config.phedex.subscription_chunk_size, in TB
subscription_chunk_size == 40

Call(op, replica, replica_list, groups, comments) ==
    [op |-> op, replica |-> replica, replica_list |-> replica_list, groups |-> groups,
     comments |-> comments]

SchedCalls ==
    {Call("schedule_copy", r, << >>, << >>, c) : r \in {DR1, DR3}, c \in {"", "c"}}
    \cup {Call("schedule_copies", DR1, l, << >>, c)
            : l \in {<< >>, <<DR1>>, <<DR1, DR2>>, <<DR1, DR3>>}, c \in {"", "c"}}
    \cup {Call("schedule_deletion", r, << >>, g, c)
            : r \in {DR1, DR2, BR1, BR2}, g \in {<< >>, <<"G1">>}, c \in {"", "c"}}
    \cup {Call("schedule_deletions", DR1, l, g, c)
            : l \in {<< >>, <<DR1, DR2>>, <<DR1, DR2, DR3>>},
              g \in {<< >>, <<"G1">>}, c \in {"", "c"}}

\* what _make_phedex_request gives for subscribe, delete and updaterequest:
\* it raises, or returns the body: no request created, or the id as a string
PhedexAnswers == {"raise", "empty", "7", "8"}

int(string) == IF string = "7" THEN 7 ELSE 8

\* _form_catalog_xml: the datasets of the catalog with their blocks
_form_catalog_xml(catalogs) ==
    LET names == Order(DatasetOrder, DOMAIN catalogs)
    IN  [dbs |-> "dbs",
         datasets |-> [k \in 1..Len(names) |->
                         [name |-> names[k], is_open |-> "n",
                          blocks |-> [j \in 1..Len(catalogs[names[k]]) |->
                                        [name |-> <<names[k], real_name(catalogs[names[k]][j])>>,
                                         is_open |-> "n"]]]]]

SubscribeOptions(node, catalogs, comments) ==
    [node |-> node, data |-> _form_catalog_xml(catalogs), level |-> "dataset",
     priority |-> "low", move |-> "n", static |-> "n", custodial |-> "n",
     group |-> "AnalysisOps", request_only |-> "n", no_mail |-> "n",
     comments |-> comments]

DeleteOptions(node, catalogs, comments) ==
    [node |-> node, data |-> _form_catalog_xml(catalogs), level |-> "dataset",
     rm_subscriptions |-> "y", comments |-> comments]

\* an approval that is sent to another node than the one of the request
ApproveOptionsOtherSite(node, request_id) ==
    [decision |-> "approve", request |-> request_id, node |-> "S3"]

ApproveOptions(node, request_id) ==
    [decision |-> "approve", request |-> request_id, node |-> node]

Request_(resource, options) == [resource |-> resource, options |-> options]

\* a call that issues requests although config.read_only is set
OutcomeIgnoringReadOnly(ro, test) == IF test THEN "test" ELSE "request"

\* if config.read_only: log and return; if is_test: ...; else: request
Outcome(ro, test) == IF ro THEN "logged" ELSE IF test THEN "test" ELSE "request"

\* the values a call returns: None, an integer, or the request mapping
NoneValue == [kind |-> "None", id |-> 0, mapping |-> << >>]

IntValue(n) == [kind |-> "int", id |-> n, mapping |-> << >>]

MappingValue(m) == [kind |-> "dict", id |-> 0, mapping |-> m]

AtCall(op) == sched_pc = "idle" /\ sched_call.op = op

schedule_copy ==
    /\ AtCall("schedule_copy")
    /\ LET replica == sched_call.replica
           catalogs == [d \in {replica.dataset} |-> << >>]
           options == SubscribeOptions(replica.site, catalogs, sched_call.comments)
           outcome == Outcome(read_only, is_test)
       IN  \E answer \in IF outcome = "request" THEN PhedexAnswers ELSE {"none"} :
              /\ requests' = IF outcome = "request"
                             THEN Append(requests, Request_("subscribe", options))
                             ELSE requests
              /\ answers' = IF outcome = "request" THEN Append(answers, answer)
                            ELSE answers
              /\ sched_pc' = IF answer = "raise" THEN "raised" ELSE "done"
              /\ sched_result' =
                    IF outcome = "logged" THEN NoneValue
                    ELSE IF outcome = "test" THEN IntValue(-1)
                    ELSE IF answer = "raise" THEN sched_result
                    ELSE IF answer = "empty" THEN IntValue(0)
                    ELSE IntValue(int(answer))
    /\ UNCHANGED <<read_only, is_test, sched_call, request_mapping, pending_sites>>
    /\ UNCHANGED notSched

\* an element of replica_list is a replica: "replica, origin = elem" raises a
\* TypeError for the first element, before run_subscription_request is called
\* (for a list of (replica, origin) pairs "r.dataset" raises at the first line)
schedule_copies ==
    /\ AtCall("schedule_copies")
    /\ IF sched_call.replica_list = << >>
       THEN /\ sched_pc' = "done"
            /\ sched_result' = MappingValue(<< >>)
       ELSE /\ sched_pc' = "raised"
            /\ sched_result' = sched_result
    /\ UNCHANGED <<read_only, is_test, sched_call, requests, answers,
                   request_mapping, pending_sites>>
    /\ UNCHANGED notSched

\* the catalog of schedule_deletion for a dataset replica
DeletionCatalog(replica, groups) ==
    LET brs == replica.block_replicas
        others == SelectSeq(brs, LAMBDA brep :
                              brep.group # NULL /\ brep.group \notin Range(groups))
    IN  IF groups = << >> THEN [d \in {replica.dataset} |-> << >>]
        ELSE IF replica.group = NULL
             THEN [d \in {replica.dataset} |-> [k \in 1..Len(others) |-> others[k].block]]
             ELSE IF replica.group \notin Range(groups) THEN << >>
                  ELSE [d \in {replica.dataset} |-> << >>]

schedule_deletion ==
    /\ AtCall("schedule_deletion")
    /\ LET replica == sched_call.replica
           groups == sched_call.groups
           skipped == /\ replica.type = "BlockReplica"
                      /\ groups # << >>
                      /\ (replica.group = NULL \/ replica.group \notin Range(groups))
           catalogs == IF replica.type = "DatasetReplica"
                       THEN DeletionCatalog(replica, groups)
                       ELSE [d \in {replica.dataset} |-> <<replica.block>>]
           options == DeleteOptions(replica.site, catalogs, sched_call.comments)
           outcome == IF skipped THEN "skipped" ELSE Outcome(read_only, is_test)
           created(answer) == answer \notin {"none", "raise", "empty"}
       IN  \E deleted \in IF outcome = "request" THEN PhedexAnswers ELSE {"none"} :
           \E approved \in IF created(deleted) THEN PhedexAnswers ELSE {"none"} :
              /\ requests' =
                    IF outcome # "request" THEN requests
                    ELSE IF created(deleted)
                         THEN requests \o
                              <<Request_("delete", options),
                                Request_("updaterequest",
                                         ApproveOptions(replica.site, int(deleted)))>>
                         ELSE Append(requests, Request_("delete", options))
              /\ answers' =
                    IF outcome # "request" THEN answers
                    ELSE IF created(deleted) THEN answers \o <<deleted, approved>>
                         ELSE Append(answers, deleted)
              /\ sched_pc' = IF "raise" \in {deleted, approved} THEN "raised" ELSE "done"
              /\ sched_result' =
                    IF outcome \in {"skipped", "logged"} THEN IntValue(0)
                    ELSE IF outcome = "test" THEN IntValue(-1)
                    ELSE IF "raise" \in {deleted, approved} THEN sched_result
                    ELSE IF "empty" \in {deleted, approved} THEN IntValue(0)
                    ELSE IntValue(int(deleted))
    /\ UNCHANGED <<read_only, is_test, sched_call, request_mapping, pending_sites>>
    /\ UNCHANGED notSched

\* the call: replicas_by_site, then one run_deletion_request per site
schedule_deletions ==
    /\ AtCall("schedule_deletions")
    /\ pending_sites' =
          Order(SiteOrder, {sched_call.replica_list[k].site
                              : k \in 1..Len(sched_call.replica_list)})
    /\ request_mapping' = << >>
    /\ sched_pc' = "sites"
    /\ UNCHANGED <<read_only, is_test, sched_call, requests, answers, sched_result>>
    /\ UNCHANGED notSched

\* the catalogs of run_deletion_request
RECURSIVE DeletionCatalogs(_, _, _)
DeletionCatalogs(catalogs, replicas, groups) ==
    IF replicas = << >> THEN catalogs
    ELSE LET drep == Head(replicas)
             mine == SelectSeq(drep.block_replicas, LAMBDA brep :
                                 brep.group # NULL /\ brep.group \in Range(groups))
             blocks == IF groups # << >> /\ drep.group = NULL
                       THEN [k \in 1..Len(mine) |-> mine[k].block]
                       ELSE << >>
             popped == groups # << >> /\ drep.group # NULL /\ drep.group \notin Range(groups)
             keys == IF popped THEN DOMAIN catalogs \ {drep.dataset}
                     ELSE DOMAIN catalogs \cup {drep.dataset}
         IN  DeletionCatalogs([d \in keys |-> IF d = drep.dataset THEN blocks
                                              ELSE catalogs[d]],
                              Tail(replicas), groups)

\* the first of -1, -2, .. that is not a key of request_mapping
RECURSIVE TestId(_)
TestId(request_id) ==
    IF request_id \in DOMAIN request_mapping THEN TestId(request_id - 1) ELSE request_id

run_deletion_request ==
    /\ sched_pc = "sites"
    /\ pending_sites # << >>
    /\ LET site == Head(pending_sites)
           replicas_to_delete == SelectSeq(sched_call.replica_list, LAMBDA r : r.site = site)
           catalogs == DeletionCatalogs(<< >>, replicas_to_delete, sched_call.groups)
           options == DeleteOptions(site, catalogs, sched_call.comments)
           outcome == Outcome(read_only, is_test)
           created(answer) == answer \notin {"none", "raise", "empty"}
           With(request_id, done) ==
               [i \in DOMAIN request_mapping \cup {request_id} |->
                  IF i = request_id THEN [approved |-> done, replicas |-> replicas_to_delete]
                  ELSE request_mapping[i]]
       IN  \E deleted \in IF outcome = "request" THEN PhedexAnswers ELSE {"none"} :
           \E approved \in IF created(deleted) THEN PhedexAnswers ELSE {"none"} :
              /\ requests' =
                    IF outcome # "request" THEN requests
                    ELSE IF created(deleted)
                         THEN requests \o
                              <<Request_("delete", options),
                                Request_("updaterequest",
                                         ApproveOptions(site, int(deleted)))>>
                         ELSE Append(requests, Request_("delete", options))
              /\ answers' =
                    IF outcome # "request" THEN answers
                    ELSE IF created(deleted) THEN answers \o <<deleted, approved>>
                         ELSE Append(answers, deleted)
              /\ request_mapping' =
                    IF outcome = "logged" THEN request_mapping
                    ELSE IF outcome = "test" THEN With(TestId(-1), TRUE)
                    ELSE IF created(deleted)
                         THEN With(int(deleted), created(approved))
                         ELSE request_mapping
              /\ sched_pc' = IF "raise" \in {deleted, approved} THEN "raised" ELSE sched_pc
    /\ pending_sites' = Tail(pending_sites)
    /\ UNCHANGED <<read_only, is_test, sched_call, sched_result>>
    /\ UNCHANGED notSched

\* return request_mapping
ReturnMapping ==
    /\ sched_pc = "sites"
    /\ pending_sites = << >>
    /\ sched_result' = MappingValue(request_mapping)
    /\ sched_pc' = "done"
    /\ UNCHANGED <<read_only, is_test, sched_call, requests, answers,
                   request_mapping, pending_sites>>
    /\ UNCHANGED notSched

InitSched ==
    /\ GenIdle
    /\ StatusIdle
    /\ LoadIdle
    /\ WalkIdle
    /\ StoreIdle
    /\ InfoIdle
    /\ MutateIdle
    /\ LinksIdle
    /\ RestIdle
    /\ EnfIdle
    /\ PolicyIdle
    /\ read_only \in BOOLEAN
    /\ is_test \in BOOLEAN
    /\ sched_call \in SchedCalls
    /\ sched_pc = "idle"
    /\ requests = << >>
    /\ answers = << >>
    /\ sched_result = NoneValue
    /\ request_mapping = << >>
    /\ pending_sites = << >>

NextSched ==
    \/ schedule_copy
    \/ schedule_copies
    \/ schedule_deletion
    \/ schedule_deletions
    \/ run_deletion_request
    \/ ReturnMapping

SpecSched == InitSched /\ [][NextSched]_vars

(***************************************************************************)
(* Properties of the scheduling calls.                                     *)
(***************************************************************************)
\* C10: while config.read_only is set, no call of schedule_copy, schedule_copies,
\* schedule_deletion or schedule_deletions issues a subscribe, delete or
\* updaterequest request, whatever is_test and the arguments are.
C10_ReadOnlyIssuesNoRequest ==
    read_only =>
       \A k \in 1..Len(requests) :
          requests[k].resource \notin {"subscribe", "delete", "updaterequest"}

\* a read-only call that is not a test has gone through the replicas of two sites
C10_Witness ==
    /\ read_only
    /\ ~is_test
    /\ sched_pc = "done"
    /\ sched_call.op = "schedule_deletions"
    /\ Len(sched_call.replica_list) = 3

\* the replicas a call is about
CallReplicas ==
    IF sched_call.op \in {"schedule_copy", "schedule_deletion"}
    THEN <<sched_call.replica>>
    ELSE sched_call.replica_list

\* the block replicas of a replica: itself, or those of the dataset replica
BlockReplicasOf(replica) ==
    IF replica.type = "BlockReplica" THEN {replica} ELSE Range(replica.block_replicas)

\* the block replicas the remote service deletes on a delete request: at the
\* node of the request, all blocks of a dataset entry without block entries,
\* and the blocks named by the block entries otherwise
AskedToDelete(request) ==
    LET entries == Range(request.options.data.datasets)
    IN  {brep \in UNION {BlockReplicasOf(CallReplicas[k]) : k \in 1..Len(CallReplicas)} :
           /\ brep.site = request.options.node
           /\ \E e \in entries :
                 /\ e.name = brep.dataset
                 /\ \/ e.blocks = << >>
                    \/ \E j \in 1..Len(e.blocks) :
                          e.blocks[j].name = <<brep.dataset, real_name(brep.block)>>}

\* C11: when schedule_deletion or schedule_deletions is called with a non-empty
\* group list, every block replica a delete request asks to delete (by a block
\* entry, or by a dataset entry without block entries) is owned by a listed group.
C11_DeletesOnlyListedGroups ==
    (sched_pc # "unused" /\ sched_call.groups # << >>) =>
       \A k \in 1..Len(requests) :
          requests[k].resource = "delete" =>
             \A brep \in AskedToDelete(requests[k]) :
                brep.group \in Range(sched_call.groups)

\* the answers that carry the id of a created (or updated) request
IdAnswers == {"7", "8"}

\* C12: not read-only and not a test: every updaterequest call directly follows
\* a delete call that returned an id, and approves that id at the node of the
\* delete call; schedule_deletion returns an id, and schedule_deletions maps an
\* id to True, only if an updaterequest call for that id returned a result.
C12_ApprovalFollowsDelete ==
    (sched_pc # "unused" /\ ~read_only /\ ~is_test) =>
       /\ \A k \in 1..Len(requests) :
             requests[k].resource = "updaterequest" =>
                /\ k > 1
                /\ requests[k - 1].resource = "delete"
                /\ answers[k - 1] \in IdAnswers
                /\ requests[k].options =
                      [decision |-> "approve", request |-> int(answers[k - 1]),
                       node |-> requests[k - 1].options.node]
       /\ (sched_call.op = "schedule_deletion" /\ sched_pc = "done"
             /\ sched_result.kind = "int" /\ sched_result.id # 0) =>
             \E k \in 1..Len(requests) :
                /\ requests[k].resource = "updaterequest"
                /\ requests[k].options.request = sched_result.id
                /\ answers[k] \in IdAnswers
       /\ \A i \in DOMAIN request_mapping :
             request_mapping[i].approved =>
                \E k \in 1..Len(requests) :
                   /\ requests[k].resource = "updaterequest"
                   /\ requests[k].options.request = i
                   /\ answers[k] \in IdAnswers

\* schedule_deletions for two sites: the request of one site is approved, the
\* approval of the other returns nothing
C12_Witness ==
    /\ ~read_only
    /\ ~is_test
    /\ sched_pc = "done"
    /\ sched_call.op = "schedule_deletions"
    /\ Len(requests) = 4
    /\ answers = <<"7", "7", "8", "empty">>
    /\ request_mapping[7].approved
    /\ ~request_mapping[8].approved

\* the subscribe requests that include the replica: its dataset at its site
RequestsWith(replica) ==
    {k \in 1..Len(requests) :
       /\ requests[k].resource = "subscribe"
       /\ requests[k].options.node = replica.site
       /\ \E e \in Range(requests[k].options.data.datasets) : e.name = replica.dataset}

\* C13: after schedule_copies (not read-only, no request failed), every
\* subscribe request holds only replicas of the list located at its node, and
\* every replica of the list is in exactly one request.
C13_EveryReplicaInOneRequest ==
    (/\ sched_pc \in {"done", "raised"}
     /\ sched_call.op = "schedule_copies"
     /\ ~read_only
     /\ ~is_test
     /\ "raise" \notin Range(answers)) =>
       /\ \A k \in 1..Len(requests) :
             \A e \in Range(requests[k].options.data.datasets) :
                \E j \in 1..Len(sched_call.replica_list) :
                   /\ sched_call.replica_list[j].dataset = e.name
                   /\ sched_call.replica_list[j].site = requests[k].options.node
       /\ \A j \in 1..Len(sched_call.replica_list) :
             Cardinality(RequestsWith(sched_call.replica_list[j])) = 1

\* the accumulated size of the replicas of the list that a request includes
RequestSize(k) ==
    LET included == {j \in 1..Len(sched_call.replica_list) :
                       k \in RequestsWith(sched_call.replica_list[j])}
    IN  SumOver(included, [j \in included |-> size(sched_call.replica_list[j])])

EntriesWith(j) ==
    {i \in DOMAIN sched_result.mapping :
        sched_call.replica_list[j] \in Range(sched_result.mapping[i].replicas)}

\* C27: in test mode (is_test, not read-only) schedule_copies and
\* schedule_deletions issue no request and return a mapping whose keys are
\* negative operation ids, every replica of the list being in exactly one entry.
C27_TestModeNegativeIds ==
    (/\ sched_pc \in {"done", "raised"}
     /\ sched_call.op \in {"schedule_copies", "schedule_deletions"}
     /\ is_test
     /\ ~read_only) =>
       /\ requests = << >>
       /\ sched_result.kind = "dict"
       /\ \A i \in DOMAIN sched_result.mapping : i < 0
       /\ \A j \in 1..Len(sched_call.replica_list) : Cardinality(EntriesWith(j)) = 1

(***************************************************************************)
(* EnforcerInterface.report_back: one rule, the replicas of one dataset    *)
(***************************************************************************)
MaxCopies == 3

EnfSites == {"S1", "S2", "S3"}

destination_group == "G1"

\* a dataset replica as report_back reads it: replica.is_full(), the groups of
\* its block replicas, whether a target_replicas condition matches it, and what
\* the SitePartition of its site holds for it: "None" (all its block replicas
\* are in the partition), "set" (some are) or "absent" (it is not a key)
EnfReplica(s, full, owners, part, match) ==
    [dataset |-> "/a/p/t", site |-> s, is_full |-> full, owners |-> owners,
     part |-> part, match |-> match]

\* the replicas a site can hold in the scenarios
SourceReplicas(s) ==
    {EnfReplica(s, TRUE, {g}, "None", m) : g \in {"G1", "G2"}, m \in BOOLEAN}

DestinationReplicas(s) ==
    {EnfReplica(s, TRUE, {"G1"}, "None", TRUE),
     EnfReplica(s, FALSE, {"G1"}, "None", TRUE),
     EnfReplica(s, TRUE, {"G2"}, "None", TRUE),
     EnfReplica(s, FALSE, {"G1", "G2"}, "None", TRUE),
     EnfReplica(s, TRUE, {"G1"}, "set", TRUE),
     EnfReplica(s, TRUE, {"G1"}, "absent", TRUE)}

\* all orders of the elements of a set: the iteration order of a Python set,
\* and the outcomes of random.shuffle
Perms(S) ==
    {f \in [1..Cardinality(S) -> S] : \A i, j \in 1..Cardinality(S) : f[i] = f[j] => i = j}

\* site_partition.replicas[replica]: the map of a SitePartition has the
\* replicas located at its site that are in the partition
SitePartitionReplicas(site_name, replica) ==
    IF replica.site = site_name /\ replica.part # "absent" THEN replica.part
    ELSE "KeyError"

\* for replica in site_partition.replicas.iterkeys(), for every source site
EnfIterations(sources) ==
    LET at(k) == {r \in enf_replicas : SitePartitionReplicas(sources[k], r) # "KeyError"}
        RECURSIVE from(_)
        from(k) == IF k > Len(sources) THEN << >>
                   ELSE Order(SiteOrder, {r.site : r \in at(k)}) \o from(k + 1)
        sites == from(1)
    IN  [k \in 1..Len(sites) |->
           [site |-> sites[k],
            replica |-> CHOOSE r \in enf_replicas : r.site = sites[k]]]

\* target_num = rule.num_copies, capped at len(destination_sites)
target_num ==
    IF num_copies > Cardinality(destination_sites) THEN Cardinality(destination_sites)
    ELSE num_copies

\* dataset.replicas, in the order the loop goes through them
DatasetReplicas ==
    LET sites == Order(SiteOrder, {r.site : r \in enf_replicas})
    IN  [k \in 1..Len(sites) |-> CHOOSE r \in enf_replicas : r.site = sites[k]]

\* the replicas the counting loop gets to: at a destination site and with the
\* value None in site_partition.replicas, where site_partition is the one of
\* the site of the outer loop
Considered(site_name) ==
    SelectSeq(DatasetReplicas, LAMBDA r :
                /\ r.site \in destination_sites
                /\ SitePartitionReplicas(site_name, r) = "None")

Owned(r) == Cardinality(r.owners) = 1 /\ r.owners = {destination_group}

num_complete(site_name) ==
    Len(SelectSeq(Considered(site_name), LAMBDA r : Owned(r) /\ r.is_full))

num_incomplete(site_name) ==
    Len(SelectSeq(Considered(site_name), LAMBDA r : Owned(r) /\ ~r.is_full))

can_be_flipped(site_name) ==
    SelectSeq(Considered(site_name), LAMBDA r : ~Owned(r))

data_incomplete(site_name) ==
    {r.site : r \in Range(SelectSeq(Considered(site_name),
                                    LAMBDA r : Owned(r) /\ ~r.is_full))}

\* destination_sites - set(r.site for r in dataset.replicas if r.is_full())
site_candidates ==
    destination_sites \ {r.site : r \in {x \in enf_replicas : x.is_full}}

\* a request loop that takes the candidates before the replicas to flip
RECURSIVE RequestSitesCandidatesFirst(_, _, _, _)
RequestSitesCandidatesFirst(present, flip, candidates, request_sites) ==
    IF present + Len(request_sites) < target_num
    THEN IF candidates # << >>
         THEN RequestSitesCandidatesFirst(present, flip, Front(candidates),
                                          Append(request_sites, Last(candidates)))
         ELSE IF flip = << >> THEN request_sites
              ELSE RequestSitesCandidatesFirst(present, Front(flip), candidates,
                                               Append(request_sites, Last(flip).site))
    ELSE request_sites

\* while num_complete + num_incomplete + len(request_sites) < target_num: ..
RECURSIVE RequestSites(_, _, _, _)
RequestSites(present, flip, candidates, request_sites) ==
    IF present + Len(request_sites) < target_num
    THEN IF flip # << >>
         THEN RequestSites(present, Front(flip), candidates,
                           Append(request_sites, Last(flip).site))
         ELSE IF candidates = << >> THEN request_sites
              ELSE RequestSites(present, flip, Front(candidates),
                                Append(request_sites, Last(candidates)))
    ELSE request_sites

\* the locals of the iteration that counted the replicas of the dataset
Counted(site_name, candidates, request_sites) ==
    [site |-> site_name, num_complete |-> num_complete(site_name),
     num_incomplete |-> num_incomplete(site_name),
     can_be_flipped |-> [k \in 1..Len(can_be_flipped(site_name)) |->
                           can_be_flipped(site_name)[k].site],
     site_candidates |-> candidates, request_sites |-> request_sites]

AtIteration == enf_pc = "loop" /\ enf_pending # << >>

\* the branch the iteration takes after the counting
Branch(site_name) ==
    IF num_complete(site_name) >= target_num THEN "already_there"
    ELSE IF num_complete(site_name) + num_incomplete(site_name) >= target_num
         THEN "en_route"
         ELSE IF site_candidates = {} /\ can_be_flipped(site_name) = << >>
              THEN "nowhere"
              ELSE "missing"

report_back ==
    /\ enf_pc = "idle"
    /\ enf_pc' = "loop"
    /\ enf_pending' = EnfIterations(source_sites)
    /\ checked_datasets' = {}
    /\ product' = << >>
    /\ rrd' = [already_there |-> {}, en_route |-> {}, still_missing |-> {}]
    /\ UNCHANGED <<write_rrds, num_copies, destination_sites, source_sites,
                   enf_replicas, counted>>
    /\ UNCHANGED notEnf

\* if dataset in checked_datasets: continue
SkipChecked ==
    /\ AtIteration
    /\ Head(enf_pending).replica.dataset \in checked_datasets
    /\ enf_pending' = Tail(enf_pending)
    /\ UNCHANGED <<write_rrds, num_copies, destination_sites, source_sites,
                   enf_replicas, enf_pc, checked_datasets, product, rrd, counted>>
    /\ UNCHANGED notEnf

\* no condition of rule.target_replicas matched: continue
SkipNoMatch ==
    /\ AtIteration
    /\ Head(enf_pending).replica.dataset \notin checked_datasets
    /\ ~Head(enf_pending).replica.match
    /\ checked_datasets' = checked_datasets \cup {Head(enf_pending).replica.dataset}
    /\ enf_pending' = Tail(enf_pending)
    /\ UNCHANGED <<write_rrds, num_copies, destination_sites, source_sites,
                   enf_replicas, enf_pc, product, rrd, counted>>
    /\ UNCHANGED notEnf

\* the iterations that count the replicas and request nothing
CountOnly ==
    /\ AtIteration
    /\ LET site_name == Head(enf_pending).site
           replica == Head(enf_pending).replica
           branch == Branch(site_name)
       IN  /\ replica.dataset \notin checked_datasets
           /\ replica.match
           /\ branch \in {"already_there", "en_route", "nowhere"}
              \/ (branch = "missing" /\ write_rrds)
           /\ checked_datasets' = checked_datasets \cup {replica.dataset}
           /\ rrd' =
                 IF ~write_rrds \/ branch = "nowhere" THEN rrd
                 ELSE IF branch = "already_there"
                      THEN [rrd EXCEPT !.already_there = @ \cup {replica.dataset}]
                      ELSE IF branch = "en_route"
                           THEN [rrd EXCEPT !.en_route =
                                   @ \cup {<<replica.dataset, s>> :
                                             s \in data_incomplete(site_name)}]
                           ELSE [rrd EXCEPT !.still_missing = @ \cup {replica.dataset}]
           /\ counted' = Append(counted, Counted(site_name, site_candidates, << >>))
    /\ enf_pending' = Tail(enf_pending)
    /\ UNCHANGED <<write_rrds, num_copies, destination_sites, source_sites,
                   enf_replicas, enf_pc, product>>
    /\ UNCHANGED notEnf

\* the iteration that requests copies: shuffle, the while loop, product.append
RequestCopies ==
    /\ AtIteration
    /\ LET site_name == Head(enf_pending).site
           replica == Head(enf_pending).replica
       IN  /\ replica.dataset \notin checked_datasets
           /\ replica.match
           /\ Branch(site_name) = "missing"
           /\ ~write_rrds
           /\ checked_datasets' = checked_datasets \cup {replica.dataset}
           /\ \E shuffled \in Perms(site_candidates) :
                 LET request_sites ==
                        RequestSites(num_complete(site_name) + num_incomplete(site_name),
                                     can_be_flipped(site_name), shuffled, << >>)
                 IN  /\ product' = product \o
                           [k \in 1..Len(request_sites) |->
                              [kind |-> "request", dataset |-> replica.dataset,
                               site |-> request_sites[k]]]
                     /\ counted' = Append(counted, Counted(site_name, site_candidates,
                                                           request_sites))
    /\ enf_pending' = Tail(enf_pending)
    /\ UNCHANGED <<write_rrds, num_copies, destination_sites, source_sites,
                   enf_replicas, enf_pc, rrd>>
    /\ UNCHANGED notEnf

\* after the loops: the RRD entry of the rule, or random.shuffle(product)
ReturnProduct ==
    /\ enf_pc = "loop"
    /\ enf_pending = << >>
    /\ enf_pc' = "done"
    /\ IF write_rrds
       THEN product' = Append(product, [kind |-> "rrd", dataset |-> NULL, site |-> NULL])
       ELSE \E order \in Perms(1..Len(product)) :
               product' = [k \in 1..Len(product) |-> product[order[k]]]
    /\ UNCHANGED <<write_rrds, num_copies, destination_sites, source_sites,
                   enf_replicas, enf_pending, checked_datasets, rrd, counted>>
    /\ UNCHANGED notEnf

InitEnf ==
    /\ GenIdle
    /\ StatusIdle
    /\ LoadIdle
    /\ WalkIdle
    /\ StoreIdle
    /\ InfoIdle
    /\ MutateIdle
    /\ LinksIdle
    /\ RestIdle
    /\ SchedIdle
    /\ PolicyIdle
    /\ write_rrds \in BOOLEAN
    /\ num_copies \in 1..MaxCopies
    /\ destination_sites \in {{"S2"}, {"S2", "S3"}, {"S1", "S2", "S3"}}
    /\ source_sites \in Perms({"S1"}) \cup Perms({"S1", "S2"})
    /\ \E r1 \in SourceReplicas("S1"),
          R2 \in {{}} \cup {{r} : r \in DestinationReplicas("S2")},
          R3 \in {{}} \cup {{r} : r \in DestinationReplicas("S3")} :
          enf_replicas = {r1} \cup R2 \cup R3
    /\ enf_pc = "idle"
    /\ enf_pending = << >>
    /\ checked_datasets = {}
    /\ product = << >>
    /\ rrd = [already_there |-> {}, en_route |-> {}, still_missing |-> {}]
    /\ counted = << >>

NextEnf ==
    \/ report_back
    \/ SkipChecked
    \/ SkipNoMatch
    \/ CountOnly
    \/ RequestCopies
    \/ ReturnProduct

SpecEnf == InitEnf /\ [][NextEnf]_vars

(***************************************************************************)
(* Properties of report_back.                                              *)
(***************************************************************************)
\* the requests of the product for the dataset
RequestsFor(d) ==
    {k \in 1..Len(product) : product[k].kind = "request" /\ product[k].dataset = d}

\* the replicas at destination sites that are fully in the partition (of their
\* own site) and wholly owned by the destination group
DestinationCopies ==
    {r \in enf_replicas : /\ r.site \in destination_sites
                          /\ r.part = "None"
                          /\ r.owners = {destination_group}}

\* C15: when the dataset has at least target_num replicas at destination sites
\* that are fully in the partition and wholly owned by the destination group
\* (complete, or complete and incomplete together), report_back returns no
\* (dataset, site) request for it, at whichever sites those replicas are.
C15_NoRequestWhenTargetMet ==
    (enf_pc = "done" /\ Cardinality(DestinationCopies) >= target_num) =>
       RequestsFor("/a/p/t") = {}

\* C16: with write_rrds off, an iteration that finds the dataset short of
\* target_num requests min(target_num - num_complete - num_incomplete,
\* |can_be_flipped| + |candidates|) sites: the sites of can_be_flipped come
\* first (popped from the end), then distinct sites of candidates, where
\* candidates are the destination sites without a full replica of the dataset;
\* the returned product holds exactly these requests.
C16_RequestCount ==
    (enf_pc \in {"loop", "done"} /\ ~write_rrds) =>
       \A i \in 1..Len(counted) :
          LET c == counted[i]
              flip == c.can_be_flipped
              n == Min(target_num - c.num_complete - c.num_incomplete,
                       Len(flip) + Cardinality(c.site_candidates))
              m == Min(n, Len(flip))
          IN  /\ c.site_candidates =
                    {s \in destination_sites :
                       ~\E r \in enf_replicas : r.site = s /\ r.is_full}
              /\ c.num_complete + c.num_incomplete < target_num =>
                    /\ Len(c.request_sites) = n
                    /\ \A k \in 1..m : c.request_sites[k] = flip[Len(flip) + 1 - k]
                    /\ \A k \in (m + 1)..n : c.request_sites[k] \in c.site_candidates
                    /\ \A k, j \in (m + 1)..n : c.request_sites[k] = c.request_sites[j] => k = j
                    /\ enf_pc = "done" =>
                          /\ Cardinality(RequestsFor("/a/p/t")) = n
                          /\ \A s \in EnfSites :
                                Cardinality({k \in 1..Len(product) : product[k].site = s})
                                = Cardinality({k \in 1..n : c.request_sites[k] = s})
              /\ c.num_complete + c.num_incomplete >= target_num =>
                    c.request_sites = << >>

\* two requests: the site of the replica to flip, then one of two candidates
C16_Witness ==
    /\ enf_pc = "done"
    /\ ~write_rrds
    /\ Len(counted) = 1
    /\ counted[1].can_be_flipped = <<"S1">>
    /\ Cardinality(counted[1].site_candidates) = 2
    /\ counted[1].num_complete + counted[1].num_incomplete = 0
    /\ target_num = 2
    /\ Len(counted[1].request_sites) = 2
    /\ counted[1].request_sites[1] = "S1"
    /\ Len(product) = 2

\* the replicas the loops over the source sites come to that match a
\* condition of rule.target_replicas
MatchingSourceReplicas ==
    {r \in enf_replicas : /\ r.match
                          /\ \E k \in 1..Len(source_sites) :
                                SitePartitionReplicas(source_sites[k], r) # "KeyError"}

\* C38: a dataset with a replica at a source site that matches a condition of
\* the rule is evaluated against the rule, once, in whichever order the source
\* sites and their replicas are gone through; no dataset is evaluated twice.
C38_MatchingDatasetEvaluatedOnce ==
    enf_pc = "done" =>
       /\ Len(counted) <= 1
       /\ MatchingSourceReplicas # {} => Len(counted) = 1

\* C39: the sites report_back requests for the dataset are pairwise
\* distinct, in the request_sites of the iteration and in the product, also
\* when a site has a replica in can_be_flipped and is a candidate site.
C39_RequestedSitesDistinct ==
    ~write_rrds =>
       /\ \A i \in 1..Len(counted) :
             \A k, j \in 1..Len(counted[i].request_sites) :
                counted[i].request_sites[k] = counted[i].request_sites[j] => k = j
       /\ \A k, j \in RequestsFor("/a/p/t") : product[k].site = product[j].site => k = j

(***************************************************************************)
(* Policy.evaluate and Policy.sort_deletion_candidates                     *)
(***************************************************************************)
MaxRules == 3

MaxReplicas == 3

DEC_DELETE == 1

DEC_KEEP == 2

DEC_PROTECT == 3

\* the replica that is evaluated
EvaluatedReplica == [dataset |-> "/a/p/t", site |-> "S1"]

\* what a rule returns: None, or (replica, decision, reason)
RuleNone == [kind |-> "None", replica |-> NULL, decision |-> 0, reason |-> ""]

RuleResult(replica, decision, reason) ==
    [kind |-> "tuple", replica |-> replica, decision |-> decision, reason |-> reason]

RuleOutcomes ==
    {RuleNone, RuleResult(EvaluatedReplica, DEC_DELETE, "unused"),
     RuleResult(EvaluatedReplica, DEC_PROTECT, "locked")}

\* the sequences of at most n elements of S
SeqsUpTo(S, n) == UNION {[1..k -> S] : k \in 0..n}

\* the replicas that can be candidates, and the sequences without repetition
CandidateReplicas ==
    {[dataset |-> "/a/p/t", site |-> "S1"], [dataset |-> "/a/p/t", site |-> "S2"],
     [dataset |-> "/g/p/t", site |-> "S1"], [dataset |-> "/m/p/t", site |-> "S1"]}

CandidateLists ==
    {l \in SeqsUpTo(CandidateReplicas, MaxReplicas) :
       \A i, j \in 1..Len(l) : l[i] = l[j] => i = j}

\* a loop that goes on after a rule has returned a result
BreakNever(result) == FALSE

\* if result is not None: break
Break(result) == result.kind # "None"

evaluate ==
    /\ policy_pc = "idle"
    /\ policy_op = "evaluate"
    /\ policy_pc' = "loop"
    /\ called' = << >>
    /\ UNCHANGED <<policy_op, default_decision, rules, candidate_replicas,
                   global_usage_rank, policy_result>>
    /\ UNCHANGED notPolicy

\* result = rule(replica, demand_manager), and the test of the result
CallRule ==
    /\ policy_pc = "loop"
    /\ Len(called) < Len(rules)
    /\ LET k == Len(called) + 1
       IN  /\ called' = Append(called, k)
           /\ IF Break(rules[k])
              THEN /\ policy_result' = rules[k]
                   /\ policy_pc' = "done"
              ELSE /\ policy_result' = policy_result
                   /\ policy_pc' = "loop"
    /\ UNCHANGED <<policy_op, default_decision, rules, candidate_replicas,
                   global_usage_rank>>
    /\ UNCHANGED notPolicy

\* the else branch of the for loop
ReturnDefault ==
    /\ policy_pc = "loop"
    /\ Len(called) = Len(rules)
    /\ policy_result' = RuleResult(EvaluatedReplica, default_decision, "Policy default")
    /\ policy_pc' = "done"
    /\ UNCHANGED <<policy_op, default_decision, rules, candidate_replicas,
                   global_usage_rank, called>>
    /\ UNCHANGED notPolicy

\* key = lambda r: demands.dataset_demands[r.dataset].global_usage_rank
SortKey(r) == global_usage_rank[r.dataset]

\* sorted(.., reverse = True) is stable: an element goes behind the elements
\* whose key is greater than or equal to its own
RECURSIVE InsertDescending(_, _)
InsertDescending(l, r) ==
    IF l = << >> THEN <<r>>
    ELSE IF SortKey(Head(l)) >= SortKey(r) THEN <<Head(l)>> \o InsertDescending(Tail(l), r)
         ELSE <<r>> \o l

RECURSIVE sorted(_, _)
sorted(l, acc) ==
    IF l = << >> THEN acc ELSE sorted(Tail(l), InsertDescending(acc, Head(l)))

sort_deletion_candidates ==
    /\ policy_pc = "idle"
    /\ policy_op = "sort_deletion_candidates"
    /\ policy_result' = sorted(candidate_replicas, << >>)
    /\ policy_pc' = "done"
    /\ UNCHANGED <<policy_op, default_decision, rules, candidate_replicas,
                   global_usage_rank, called>>
    /\ UNCHANGED notPolicy

InitPolicy ==
    /\ GenIdle
    /\ StatusIdle
    /\ LoadIdle
    /\ WalkIdle
    /\ StoreIdle
    /\ InfoIdle
    /\ MutateIdle
    /\ LinksIdle
    /\ RestIdle
    /\ SchedIdle
    /\ EnfIdle
    /\ policy_op \in {"evaluate", "sort_deletion_candidates"}
    /\ IF policy_op = "evaluate"
       THEN /\ default_decision \in {DEC_DELETE, DEC_KEEP, DEC_PROTECT}
            /\ rules \in SeqsUpTo(RuleOutcomes, MaxRules)
            /\ candidate_replicas = << >>
            /\ global_usage_rank = << >>
       ELSE /\ default_decision = DEC_KEEP
            /\ rules = << >>
            /\ candidate_replicas \in CandidateLists
            /\ global_usage_rank \in [{"/a/p/t", "/g/p/t", "/m/p/t"} -> 1..2]
    /\ policy_pc = "idle"
    /\ called = << >>
    /\ policy_result = RuleNone

NextPolicy ==
    \/ evaluate
    \/ CallRule
    \/ ReturnDefault
    \/ sort_deletion_candidates

SpecPolicy == InitPolicy /\ [][NextPolicy]_vars

(***************************************************************************)
(* Properties of the policy.                                               *)
(***************************************************************************)
\* the rules that return a result
Deciding == {k \in 1..Len(rules) : rules[k].kind # "None"}

\* C17: evaluate calls the rules in list order; it returns the result of the
\* first rule that returns non-null and calls no rule after it; when no rule
\* returns a result it returns (replica, default_decision, 'Policy default').
C17_FirstRuleWins ==
    policy_op = "evaluate" =>
       /\ called = [k \in 1..Len(called) |-> k]
       /\ \A k \in 1..Len(called) : k # Len(called) => rules[k].kind = "None"
       /\ policy_pc = "done" =>
             IF Deciding = {}
             THEN /\ Len(called) = Len(rules)
                  /\ policy_result =
                        RuleResult(EvaluatedReplica, default_decision, "Policy default")
             ELSE LET first == CHOOSE k \in Deciding : \A j \in Deciding : k <= j
                  IN  /\ Len(called) = first
                      /\ policy_result = rules[first]

\* three rules: the first returns None, the second a result, the third is not called
C17_Witness ==
    /\ policy_op = "evaluate"
    /\ policy_pc = "done"
    /\ Len(rules) = 3
    /\ rules[1].kind = "None"
    /\ rules[2].kind = "tuple"
    /\ rules[3].kind = "tuple"
    /\ rules[3] # rules[2]
    /\ called = <<1, 2>>
    /\ policy_result = rules[2]

\* the position of a dataset name in ascending order of the names
NameRank(name) == CHOOSE k \in 1..Len(DatasetOrder) : DatasetOrder[k] = name

\* C18: sort_deletion_candidates returns a permutation of its input in
\* descending order of global_usage_rank, replicas of equal rank in ascending
\* order of their dataset names.
C18_SortedByRankThenName ==
    (policy_op = "sort_deletion_candidates" /\ policy_pc = "done") =>
       /\ Len(policy_result) = Len(candidate_replicas)
       /\ Range(policy_result) = Range(candidate_replicas)
       /\ \A i, j \in 1..Len(policy_result) :
             i < j =>
                \/ SortKey(policy_result[i]) > SortKey(policy_result[j])
                \/ /\ SortKey(policy_result[i]) = SortKey(policy_result[j])
                   /\ NameRank(policy_result[i].dataset) <= NameRank(policy_result[j].dataset)

(***************************************************************************)
(* fill_dataset_info and find_tape_copies: the blocks, sizes and statuses   *)
(* of the open datasets are taken from the "data" call of the replica       *)
(* catalog, blocks open for long are checked with the dataset catalog, the  *)
(* datasets left without blocks are removed; the tape check sets on_tape.   *)
(***************************************************************************)
STAT_IGNORED == "IGNORED"

TYPE_UNKNOWN == "TYPE_UNKNOWN"

\* 48. * 3600. seconds, in hours
OpenBlockAge == 48

\* chunk_size of set_dataset_constituent_info and of find_tape_copies
constituent_chunk_size == 100

tape_chunk_size == 1000

\* a Block object; oid is the identity of the object
BlockObject(oid, name, bytes, files, is_open) ==
    [oid |-> oid, name |-> name, size |-> bytes, num_files |-> files,
     is_open |-> is_open]

\* block.clone(is_open = True): a new object with the other fields copied
clone(block, oid) == [block EXCEPT !.oid = oid, !.is_open = TRUE]

\* dataset.find_block(block_name): the index of the block, 0 for None
find_block(blocks, name) ==
    IF \E k \in 1..Len(blocks) : blocks[k].name = name
    THEN CHOOSE k \in 1..Len(blocks) :
            /\ blocks[k].name = name
            /\ \A j \in 1..(k - 1) : blocks[j].name # name
    ELSE 0

\* the test of a block entry for the secondary check, whatever its age
StillOpenAnyAge(block_entry) == block_entry.is_open = "y"

\* if block_entry['is_open'] == 'y' and time.time() - block_entry['time_create'] > 48h
StillOpen(block_entry) ==
    block_entry.is_open = "y" /\ block_entry.age > OpenBlockAge

\* the loop over ds_entry['block']: st holds the blocks of the dataset, the
\* local list open_blocks and the number of Block objects
RECURSIVE BlockEntries(_, _, _)
BlockEntries(d, entries, st) ==
    IF entries = << >> THEN st
    ELSE LET e == Head(entries)
             k == find_block(st.blocks, block_name(e))
             made == BlockObject(st.n + 1, block_name(e), e.bytes, e.files, FALSE)
             block == IF k = 0 THEN made ELSE st.blocks[k]
             blocks == IF k = 0 THEN Append(st.blocks, made) ELSE st.blocks
         IN  BlockEntries(d, Tail(entries),
                 [blocks |-> blocks,
                  open |-> IF StillOpen(e)
                           THEN Append(st.open, [dataset |-> d, block |-> block])
                           ELSE st.open,
                  n |-> IF k = 0 THEN st.n + 1 ELSE st.n])

\* the loop over the dataset entries of the answer, then over what remains of
\* list_chunk
RECURSIVE DatasetEntries(_, _, _)
DatasetEntries(names, source, st) ==
    IF names = << >> THEN st
    ELSE LET d == Head(names)
             dataset == st.datasets[d]
             r == BlockEntries(d, source[d].block,
                               [blocks |-> dataset.blocks, open |-> st.open, n |-> st.n])
             returned == [dataset EXCEPT
                            !.is_open = (source[d].is_open = "y"),
                            !.blocks = r.blocks,
                            !.status = STAT_VALID,
                            !.size = BlockTotal(r.blocks, "size"),
                            !.num_files = BlockTotal(r.blocks, "num_files")]
             remaining == [dataset EXCEPT !.status = STAT_UNKNOWN, !.size = 0,
                                          !.num_files = 0]
         IN  IF d \in DOMAIN source
             THEN DatasetEntries(Tail(names), source,
                     [datasets |-> [st.datasets EXCEPT ![d] = returned],
                      open |-> r.open, n |-> r.n])
             ELSE DatasetEntries(Tail(names), source,
                     [st EXCEPT !.datasets = [st.datasets EXCEPT ![d] = remaining]])

\* open_datasets and the call of set_dataset_constituent_info
fill_dataset_info ==
    /\ info_op = "fill_dataset_info"
    /\ info_pc = "idle"
    /\ open_datasets' =
          Order(DatasetOrder, {d \in DOMAIN dataset_objs :
                                 dataset_objs[d].status \in {STAT_PRODUCTION, STAT_UNKNOWN}})
    /\ info_pc' = "set_constituent"
    /\ UNCHANGED <<info_op, dataset_objs, replica_index, site_index, data_answer,
                   tape_answer, all_open_blocks, dbs_checks, dataset_chunks,
                   blocks_on_tape, num_objects>>
    /\ UNCHANGED notInfo

\* set_constituent on the chunk of the open datasets (at most chunk_size of
\* them, so they are one chunk), and the dbs_check calls that follow
set_constituent ==
    /\ info_pc = "set_constituent"
    /\ Len(open_datasets) <= constituent_chunk_size
    /\ LET list_chunk == open_datasets
           source == [d \in Range(list_chunk) \cap DOMAIN data_answer |-> data_answer[d]]
           names == SelectSeq(list_chunk, LAMBDA d : d \in DOMAIN source)
                    \o SelectSeq(list_chunk, LAMBDA d : d \notin DOMAIN source)
           r == DatasetEntries(names, source,
                               [datasets |-> dataset_objs, open |-> << >>,
                                n |-> num_objects])
       IN  /\ dataset_objs' = r.datasets
           /\ all_open_blocks' = r.open
           /\ num_objects' = r.n
           /\ dbs_checks' = [k \in 1..Len(r.open) |->
                               [pc |-> "request", dataset |-> r.open[k].dataset,
                                block |-> r.open[k].block]]
    /\ info_pc' = "dbs_check"
    /\ UNCHANGED <<info_op, replica_index, site_index, data_answer, tape_answer,
                   open_datasets, dataset_chunks, blocks_on_tape>>
    /\ UNCHANGED notInfo

AtCheck(k, pc) == info_pc = "dbs_check" /\ dbs_checks[k].pc = pc

\* what the "blocks" call of the dataset catalog answers: nothing, a block
\* open for writing, or a closed block
DbsResults == {"empty", "open", "closed"}

\* dbs_check: the request and the test of its result
dbs_check(k) ==
    /\ AtCheck(k, "request")
    /\ \E dbs_result \in DbsResults :
          dbs_checks' = [dbs_checks EXCEPT ![k].pc =
                           IF dbs_result \in {"empty", "open"} THEN "remove" ELSE "done"]
    /\ UNCHANGED <<info_op, info_pc, dataset_objs, replica_index, site_index,
                   data_answer, tape_answer, open_datasets, all_open_blocks,
                   dataset_chunks, blocks_on_tape, num_objects>>
    /\ UNCHANGED notInfo

\* dataset.blocks.remove(block)
RemoveBlock(k) ==
    /\ AtCheck(k, "remove")
    /\ dataset_objs' = [dataset_objs EXCEPT ![dbs_checks[k].dataset].blocks =
                          SelectSeq(@, LAMBDA x : x.oid # dbs_checks[k].block.oid)]
    /\ dbs_checks' = [dbs_checks EXCEPT ![k].pc = "append"]
    /\ UNCHANGED <<info_op, info_pc, replica_index, site_index, data_answer,
                   tape_answer, open_datasets, all_open_blocks, dataset_chunks,
                   blocks_on_tape, num_objects>>
    /\ UNCHANGED notInfo

\* block = block.clone(is_open = True); dataset.blocks.append(block)
AppendClone(k) ==
    /\ AtCheck(k, "append")
    /\ dataset_objs' = [dataset_objs EXCEPT ![dbs_checks[k].dataset].blocks =
                          Append(@, clone(dbs_checks[k].block, num_objects + 1))]
    /\ num_objects' = num_objects + 1
    /\ dbs_checks' = [dbs_checks EXCEPT ![k].pc = "status"]
    /\ UNCHANGED <<info_op, info_pc, replica_index, site_index, data_answer,
                   tape_answer, open_datasets, all_open_blocks, dataset_chunks,
                   blocks_on_tape>>
    /\ UNCHANGED notInfo

\* dataset.status = Dataset.STAT_PRODUCTION
SetProduction(k) ==
    /\ AtCheck(k, "status")
    /\ dataset_objs' = [dataset_objs EXCEPT ![dbs_checks[k].dataset].status =
                          STAT_PRODUCTION]
    /\ dbs_checks' = [dbs_checks EXCEPT ![k].pc = "done"]
    /\ UNCHANGED <<info_op, info_pc, replica_index, site_index, data_answer,
                   tape_answer, open_datasets, all_open_blocks, dataset_chunks,
                   blocks_on_tape, num_objects>>
    /\ UNCHANGED notInfo

\* the loop over open_datasets after the check: a dataset without blocks is
\* popped from the map and its replicas are taken off their sites
RemoveEmptyDatasets ==
    /\ info_pc = "dbs_check"
    /\ \A k \in DOMAIN dbs_checks : dbs_checks[k].pc = "done"
    /\ LET empty == {d \in Range(open_datasets) : Len(dataset_objs[d].blocks) = 0}
           gone == UNION {Range(dataset_objs[d].replicas) : d \in empty}
       IN  /\ dataset_objs' = [d \in DOMAIN dataset_objs \ empty |-> dataset_objs[d]]
           /\ site_index' = [s \in DOMAIN site_index |->
                               IF \E r \in gone : replica_index[r].site = s
                               THEN SelectSeq(site_index[s],
                                              LAMBDA r : ~(r \in gone /\ replica_index[r].site = s))
                               ELSE site_index[s]]
           /\ replica_index' = [r \in DOMAIN replica_index |->
                                  IF r \in gone THEN [replica_index[r] EXCEPT !.dataset = NULL]
                                  ELSE replica_index[r]]
    /\ info_pc' = "set_dataset_details"
    /\ UNCHANGED <<info_op, data_answer, tape_answer, open_datasets, all_open_blocks,
                   dbs_checks, dataset_chunks, blocks_on_tape, num_objects>>
    /\ UNCHANGED notInfo

\* what the "datasetlist" call of the dataset catalog knows of the datasets
DatasetListAnswers == {"nothing", STAT_VALID, STAT_PRODUCTION}

\* status, type and software version of the datasets that miss them
set_dataset_details ==
    /\ info_pc = "set_dataset_details"
    /\ \E entry \in DatasetListAnswers, release \in BOOLEAN :
          LET need_update == {d \in DOMAIN dataset_objs :
                                /\ dataset_objs[d].status # STAT_IGNORED
                                /\ \/ dataset_objs[d].data_type = TYPE_UNKNOWN
                                   \/ dataset_objs[d].software_version[1] = 0}
              use_datasetlist == {d \in need_update :
                                    \/ dataset_objs[d].status # STAT_VALID
                                    \/ dataset_objs[d].data_type = TYPE_UNKNOWN}
              use_releaseversions == {d \in need_update :
                                        dataset_objs[d].software_version[1] = 0}
              status_type(d, dataset) ==
                  IF d \notin use_datasetlist THEN dataset
                  ELSE IF entry = "nothing" THEN [dataset EXCEPT !.status = STAT_UNKNOWN]
                  ELSE [dataset EXCEPT !.status = entry, !.data_type = "mc"]
              release_version(d, dataset) ==
                  IF d \in use_releaseversions /\ release
                  THEN [dataset EXCEPT !.software_version = <<7, 4, 0, "">>]
                  ELSE dataset
          IN  dataset_objs' = [d \in DOMAIN dataset_objs |->
                                 release_version(d, status_type(d, dataset_objs[d]))]
    /\ info_pc' = "done"
    /\ UNCHANGED <<info_op, replica_index, site_index, data_answer, tape_answer,
                   open_datasets, all_open_blocks, dbs_checks, dataset_chunks,
                   blocks_on_tape, num_objects>>
    /\ UNCHANGED notInfo

(***************************************************************************)
(* find_tape_copies                                                        *)
(***************************************************************************)
\* the chunks of a list
Chunks(list, n) ==
    [c \in 1..((Len(list) + n - 1) \div n) |->
       SubSeq(list, (c - 1) * n + 1, Min(c * n, Len(list)))]

\* if dataset.on_tape or dataset.status == Dataset.STAT_IGNORED: continue
TapeCandidate(dataset) == ~dataset.on_tape /\ dataset.status # STAT_IGNORED

\* the datasets not on tape, in chunks
find_tape_copies ==
    /\ info_op = "find_tape_copies"
    /\ info_pc = "idle"
    /\ dataset_chunks' =
          Chunks(Order(DatasetOrder, {d \in DOMAIN dataset_objs :
                                        TapeCandidate(dataset_objs[d])}),
                 tape_chunk_size)
    /\ blocks_on_tape' = << >>
    /\ info_pc' = "run_ontape_query"
    /\ UNCHANGED <<info_op, dataset_objs, replica_index, site_index, data_answer,
                   tape_answer, open_datasets, all_open_blocks, dbs_checks, num_objects>>
    /\ UNCHANGED notInfo

\* run_ontape_query of the chunks (one chunk or none): the block names of the
\* answer, by dataset
run_ontape_query ==
    /\ info_pc = "run_ontape_query"
    /\ Len(dataset_chunks) <= 1
    /\ LET asked == IF dataset_chunks = << >> THEN {} ELSE Range(dataset_chunks[1])
           on_tape == [d \in {x \in asked : tape_answer[x] # {}} |->
                         Order(BlockOrder, tape_answer[d])]
       IN  blocks_on_tape' = on_tape
    /\ info_pc' = "fill"
    /\ UNCHANGED <<info_op, dataset_objs, replica_index, site_index, data_answer,
                   tape_answer, open_datasets, all_open_blocks, dbs_checks,
                   dataset_chunks, num_objects>>
    /\ UNCHANGED notInfo

\* every block name of the dataset is among the names found on tape
OnTapeSubset(dataset_blocks, on_tape) == dataset_blocks \subseteq on_tape

\* dataset.on_tape = (dataset_blocks == on_tape)
OnTape(dataset_blocks, on_tape) == dataset_blocks = on_tape

\* the second loop over the datasets; blocks_on_tape is a defaultdict(list)
FillOnTape ==
    /\ info_pc = "fill"
    /\ dataset_objs' =
          [d \in DOMAIN dataset_objs |->
             LET dataset == dataset_objs[d]
                 on_tape == IF d \in DOMAIN blocks_on_tape
                            THEN Range(blocks_on_tape[d]) ELSE {}
                 dataset_blocks == {dataset.blocks[k].name : k \in 1..Len(dataset.blocks)}
             IN  IF TapeCandidate(dataset)
                 THEN [dataset EXCEPT !.on_tape = OnTape(dataset_blocks, on_tape)]
                 ELSE dataset]
    /\ info_pc' = "done"
    /\ UNCHANGED <<info_op, replica_index, site_index, data_answer, tape_answer,
                   open_datasets, all_open_blocks, dbs_checks, dataset_chunks,
                   blocks_on_tape, num_objects>>
    /\ UNCHANGED notInfo

(***************************************************************************)
(* The specification of fill_dataset_info and find_tape_copies: three      *)
(* datasets with the replicas make_replica_links or load_data gave them,    *)
(* the answers of the catalogs, and one call.                               *)
(***************************************************************************)
DataBlock(d, b, open, age) ==
    [name |-> <<d, real_name(b)>>, bytes |-> 10, files |-> 1, is_open |-> open,
     age |-> age]

\* the block lists of the dataset entries: no block, the first block, two
\* closed blocks, a new block open for long, a block open for less than 48
\* hours, a block open for exactly 48 hours, two blocks open for long
BlockLists(d) ==
    <<<< >>,
      <<DataBlock(d, "b1", "n", 100)>>,
      <<DataBlock(d, "b1", "n", 100), DataBlock(d, "b2", "n", 100)>>,
      <<DataBlock(d, "b1", "n", 100), DataBlock(d, "b3", "y", 100)>>,
      <<DataBlock(d, "b1", "y", 47), DataBlock(d, "b2", "n", 100)>>,
      <<DataBlock(d, "b1", "y", 48)>>,
      <<DataBlock(d, "b1", "y", 100), DataBlock(d, "b2", "y", 100)>>>>

NoEntry == [returned |-> FALSE]

DataEntry(d, k) == [returned |-> TRUE, is_open |-> "y", block |-> BlockLists(d)[k]]

DataEntries(d) ==
    {NoEntry} \cup
    {DataEntry(d, k) : k \in IF d = "/a/p/t" THEN 1..7
                             ELSE IF d = "/g/p/t" THEN {2, 4} ELSE {1, 2}}

InfoDataset(status, blocks, replicas, details, on_tape) ==
    [status |-> status, size |-> BlockTotal(blocks, "size"),
     num_files |-> BlockTotal(blocks, "num_files"), is_open |-> FALSE,
     on_tape |-> on_tape,
     data_type |-> IF details THEN "mc" ELSE TYPE_UNKNOWN,
     software_version |-> IF details THEN <<7, 4, 0, "">> ELSE <<0, 0, 0, "">>,
     blocks |-> blocks, replicas |-> replicas]

InfoReplica(d, s, oids) ==
    [dataset |-> d, site |-> s, block_replicas |-> [k \in 1..Len(oids) |-> [block |-> oids[k]]]]

\* /a/p/t has two blocks and a replica at S1, /g/p/t one block and a replica at
\* S1, /m/p/t no block and, with empty_replica, a replica without block
\* replicas at S2
InfoDatasets(sa, sg, sm, empty_replica, details, tg) ==
    [d \in {"/a/p/t", "/g/p/t", "/m/p/t"} |->
       IF d = "/a/p/t"
       THEN InfoDataset(sa, <<BlockObject(1, "b1", 10, 1, FALSE),
                              BlockObject(2, "b2", 10, 1, FALSE)>>, <<"ra">>, details, FALSE)
       ELSE IF d = "/g/p/t"
       THEN InfoDataset(sg, <<BlockObject(3, "b1", 10, 1, FALSE)>>, <<"rg">>, details, tg)
       ELSE InfoDataset(sm, << >>, IF empty_replica THEN <<"rm">> ELSE << >>, details, FALSE)]

InfoReplicas(empty_replica) ==
    [r \in {"ra", "rg"} \cup (IF empty_replica THEN {"rm"} ELSE {}) |->
       IF r = "ra" THEN InfoReplica("/a/p/t", "S1", <<1, 2>>)
       ELSE IF r = "rg" THEN InfoReplica("/g/p/t", "S1", <<3>>)
       ELSE InfoReplica("/m/p/t", "S2", << >>)]

InfoSites(empty_replica) ==
    [s \in {"S1", "S2"} |->
       IF s = "S1" THEN <<"ra", "rg">>
       ELSE IF empty_replica THEN <<"rm">> ELSE << >>]

TapeAnswers(d) ==
    IF d = "/a/p/t" THEN {{}, {"b1"}, {"b1", "b2"}, {"b1", "b2", "b3"}}
    ELSE IF d = "/g/p/t" THEN {{}, {"b1"}}
    ELSE {{}}

InitInfo ==
    /\ GenIdle
    /\ StatusIdle
    /\ LoadIdle
    /\ WalkIdle
    /\ StoreIdle
    /\ MutateIdle
    /\ LinksIdle
    /\ RestIdle
    /\ SchedIdle
    /\ EnfIdle
    /\ PolicyIdle
    /\ info_op \in {"fill_dataset_info", "find_tape_copies"}
    /\ info_pc = "idle"
    /\ \E empty_replica \in BOOLEAN :
          /\ replica_index = InfoReplicas(empty_replica)
          /\ site_index = InfoSites(empty_replica)
          /\ IF info_op = "fill_dataset_info"
             THEN /\ \E sa \in {STAT_UNKNOWN, STAT_PRODUCTION}, sg, sm \in {STAT_UNKNOWN, STAT_VALID},
                        details \in BOOLEAN :
                        dataset_objs = InfoDatasets(sa, sg, sm, empty_replica, details, FALSE)
                  /\ \E ea \in DataEntries("/a/p/t"), eg \in DataEntries("/g/p/t"),
                        em \in DataEntries("/m/p/t") :
                        LET e == [d \in DOMAIN dataset_objs |->
                                    IF d = "/a/p/t" THEN ea ELSE IF d = "/g/p/t" THEN eg ELSE em]
                        IN  data_answer = [d \in {x \in DOMAIN e : e[x].returned} |-> e[d]]
                  /\ tape_answer = << >>
             ELSE /\ ~empty_replica
                  /\ \E sg \in {STAT_VALID, STAT_IGNORED}, tg \in BOOLEAN :
                        dataset_objs = InfoDatasets(STAT_VALID, sg, STAT_VALID, FALSE, TRUE, tg)
                  /\ tape_answer \in [DOMAIN dataset_objs -> SUBSET {"b1", "b2", "b3"}]
                  /\ \A d \in DOMAIN dataset_objs : tape_answer[d] \in TapeAnswers(d)
                  /\ data_answer = << >>
    /\ open_datasets = << >>
    /\ all_open_blocks = << >>
    /\ dbs_checks = << >>
    /\ dataset_chunks = << >>
    /\ blocks_on_tape = << >>
    /\ num_objects = 3

NextInfo ==
    \/ fill_dataset_info
    \/ set_constituent
    \/ \E k \in DOMAIN dbs_checks : dbs_check(k)
    \/ \E k \in DOMAIN dbs_checks : RemoveBlock(k)
    \/ \E k \in DOMAIN dbs_checks : AppendClone(k)
    \/ \E k \in DOMAIN dbs_checks : SetProduction(k)
    \/ RemoveEmptyDatasets
    \/ set_dataset_details
    \/ find_tape_copies
    \/ run_ontape_query
    \/ FillOnTape

SpecInfo == InitInfo /\ [][NextInfo]_vars

(***************************************************************************)
(* Properties of find_tape_copies and fill_dataset_info.                    *)
(***************************************************************************)
\* the names of the blocks of a dataset
BlockNames(d) == {dataset_objs[d].blocks[k].name : k \in 1..Len(dataset_objs[d].blocks)}

\* the block names the tape queries found for a dataset
FoundOnTape(d) == IF d \in DOMAIN blocks_on_tape THEN Range(blocks_on_tape[d]) ELSE {}

\* C22: after find_tape_copies, every dataset that was not on tape and is not
\* IGNORED has on_tape set if and only if all its block names are among the
\* block names found on tape; more names found on tape do not prevent it.
C22_OnTapeIffAllBlocksFound ==
    (info_op = "find_tape_copies" /\ info_pc = "done") =>
       \A c \in DOMAIN dataset_chunks :
          \A d \in Range(dataset_chunks[c]) :
             dataset_objs[d].on_tape <=> OnTapeSubset(BlockNames(d), FoundOnTape(d))

\* set_dataset_constituent_info has returned to fill_dataset_info
AfterConstituentCheck ==
    /\ info_op = "fill_dataset_info"
    /\ info_pc = "dbs_check"
    /\ \A k \in DOMAIN dbs_checks : dbs_checks[k].pc = "done"

\* the datasets the "data" call returned
Returned == Range(open_datasets) \cap DOMAIN data_answer

RemoteBlockNames(d) ==
    {block_name(data_answer[d].block[k]) : k \in 1..Len(data_answer[d].block)}

\* the secondary check replaced a block of the dataset by an open clone
HasOpenClone(d) ==
    \E k \in 1..Len(dataset_objs[d].blocks) : dataset_objs[d].blocks[k].is_open

\* C23: after the constituent check every dataset the catalog returned has
\* exactly the block names of the catalog (local blocks the catalog does not
\* list are gone), size and num_files are the sums over these blocks, and the
\* status is VALID unless the secondary check set it to PRODUCTION.
C23_BlocksAreRemoteBlocks ==
    AfterConstituentCheck =>
       \A d \in Returned :
          /\ BlockNames(d) = RemoteBlockNames(d)
          /\ dataset_objs[d].size = BlockTotal(dataset_objs[d].blocks, "size")
          /\ dataset_objs[d].num_files = BlockTotal(dataset_objs[d].blocks, "num_files")
          /\ dataset_objs[d].status =
                IF HasOpenClone(d) THEN STAT_PRODUCTION ELSE STAT_VALID

\* the block entries of the answer that are flagged open and younger than 48 hours
YoungOpenEntries(d) ==
    {k \in 1..Len(data_answer[d].block) :
       /\ data_answer[d].block[k].is_open = "y"
       /\ data_answer[d].block[k].age < OpenBlockAge}

\* the block entries that are flagged open and older than 48 hours
OldOpenEntries(d) ==
    {k \in 1..Len(data_answer[d].block) :
       /\ data_answer[d].block[k].is_open = "y"
       /\ data_answer[d].block[k].age > OpenBlockAge}

\* C24: a block the catalog reports open with an age below 48 hours is never
\* passed to dbs_check and is never replaced by an open clone, and after the
\* constituent check its dataset is PRODUCTION only when another block of it,
\* open for more than 48 hours, was checked.
C24_YoungOpenBlockNotRechecked ==
    info_op = "fill_dataset_info" =>
       \A d \in DOMAIN data_answer \cap DOMAIN dataset_objs :
          \A k \in YoungOpenEntries(d) :
             LET name == block_name(data_answer[d].block[k])
             IN  /\ \A j \in DOMAIN dbs_checks :
                       ~(dbs_checks[j].dataset = d /\ dbs_checks[j].block.name = name)
                 /\ \A i \in 1..Len(dataset_objs[d].blocks) :
                       dataset_objs[d].blocks[i].name = name
                          => ~dataset_objs[d].blocks[i].is_open
                 /\ (AfterConstituentCheck /\ d \in Returned /\ OldOpenEntries(d) = {})
                       => dataset_objs[d].status = STAT_VALID

\* the catalog returned /a/p/t with block b1 open for 47 hours: the check is
\* over, nothing was asked of the dataset catalog and the status is VALID
C24_Witness ==
    /\ AfterConstituentCheck
    /\ "/a/p/t" \in Returned
    /\ YoungOpenEntries("/a/p/t") = {1}
    /\ dbs_checks = << >>
    /\ dataset_objs["/a/p/t"].status = STAT_VALID
    /\ ~HasOpenClone("/a/p/t")

\* C25: after fill_dataset_info no dataset of the map has an empty block set,
\* and no site's dataset_replicas and no replica refers to a dataset that is
\* not in the map.
C25_EmptyDatasetsRemoved ==
    (info_op = "fill_dataset_info" /\ info_pc = "done") =>
       /\ \A d \in DOMAIN dataset_objs : Len(dataset_objs[d].blocks) > 0
       /\ \A s \in DOMAIN site_index :
             \A r \in Range(site_index[s]) :
                replica_index[r].dataset \in DOMAIN dataset_objs
       /\ \A r \in DOMAIN replica_index :
             \/ replica_index[r].dataset = NULL
             \/ replica_index[r].dataset \in DOMAIN dataset_objs

\* the Block objects in the block list of a dataset
BlockObjects(d) == {dataset_objs[d].blocks[k].oid : k \in 1..Len(dataset_objs[d].blocks)}

\* C30: after the secondary check replaced blocks of a dataset by open clones,
\* also several of one dataset in concurrent dbs_check calls, the dataset has
\* exactly one block of every name and as many blocks as names, its status is
\* PRODUCTION, and every block replica of the replicas of the dataset refers
\* to a Block that is in the block list of the dataset.
C30_CloneKeepsBlockSet ==
    AfterConstituentCheck =>
       \A d \in DOMAIN dataset_objs :
          HasOpenClone(d) =>
             /\ Len(dataset_objs[d].blocks) = Cardinality(BlockNames(d))
             /\ RemoteBlockNames(d) \subseteq BlockNames(d)
             /\ dataset_objs[d].status = STAT_PRODUCTION
             /\ \A i \in 1..Len(dataset_objs[d].replicas) :
                   LET replica == replica_index[dataset_objs[d].replicas[i]]
                   IN  \A j \in 1..Len(replica.block_replicas) :
                          replica.block_replicas[j].block \in BlockObjects(d)


\* ---------------------------------------------------------------------
\* The incremental mutators of MySQLInventoryStore (mysqlstore.py:570-801):
\* one dataset, one block of it, one file of the block, one site, a block
\* replica and a dataset replica at the site, and a site partition.
\* ---------------------------------------------------------------------

MutDataset == "/a/p/t"

MutBlock == "b1"

MutFile == "lfn1"

MutPartition == "P1"

\* the ids stored in a freshly constructed object and in a saved one
ObjectIds == {0, 1}

\* rows of other entities, which no call of the scenario is about
OtherRows ==
    [datasets            |-> {[id |-> 9, name |-> "/g/p/t"]},
     blocks              |-> {[id |-> 7, dataset_id |-> 9, name |-> "b9", size |-> 5]},
     files               |-> {[id |-> 7, block_id |-> 7, dataset_id |-> 9, name |-> "lfn9", size |-> 5]},
     block_replicas      |-> {[block_id |-> 7, site_id |-> 9, group_id |-> 0]},
     block_replica_sizes |-> {[block_id |-> 7, site_id |-> 9, size |-> 3]},
     dataset_replicas    |-> {[dataset_id |-> 9, site_id |-> 9]},
     partitions          |-> {[id |-> 9, name |-> "P9"]},
     quotas              |-> {[site_id |-> 9, partition_id |-> 9, storage |-> 1]}]

\* the id MySQL gives a new row of a table
NextRowId(rows) ==
    1 + MaxOf({0} \cup {r.id : r \in rows})

\* INSERT ... ON DUPLICATE KEY UPDATE: the row with the key of the new row is
\* overwritten (its id kept) and 0 is returned, else the row is inserted and
\* the insert id is returned
_insert_update(rows, key, row) ==
    LET same(r) == \A f \in key : r[f] = row[f]
        dup == {r \in rows : same(r)}
    IN  IF dup # {}
        THEN [rows |-> (rows \ dup) \cup
                       {IF "id" \in DOMAIN r THEN [row EXCEPT !.id = r.id] ELSE row
                        : r \in dup},
              id |-> 0]
        ELSE IF "id" \in DOMAIN row
        THEN [rows |-> rows \cup {[row EXCEPT !.id = NextRowId(rows)]},
              id |-> NextRowId(rows)]
        ELSE [rows |-> rows \cup {row}, id |-> 0]

\* the early return of a mutator whose parent object was never saved
NoParentNever(id) == FALSE

NoParent(id) == id = 0

MutatorReturns ==
    /\ mutate_pc' = "done"
    /\ UNCHANGED sql_before

Untouched ==
    UNCHANGED <<sql_tables, object_ids, queries>>

Called(op) ==
    /\ mutate_pc = "idle"
    /\ mutate_call' = [mutate_call EXCEPT !.op = op]

save_block ==
    /\ Called("save_block")
    /\ MutatorReturns
    /\ LET dataset_id == object_ids.dataset
           res == _insert_update(sql_tables.blocks, {"dataset_id", "name"},
                      [id |-> 0, dataset_id |-> dataset_id, name |-> MutBlock,
                       size |-> mutate_call.block_size])
       IN  IF NoParent(dataset_id)
           THEN Untouched
           ELSE /\ sql_tables' = [sql_tables EXCEPT !.blocks = res.rows]
                /\ queries' = Append(queries, "INSERT blocks")
                /\ object_ids' = IF res.id # 0
                                 THEN [object_ids EXCEPT !.block = res.id]
                                 ELSE object_ids
    /\ UNCHANGED notMutate

delete_block ==
    /\ Called("delete_block")
    /\ MutatorReturns
    /\ LET dataset_id == object_ids.dataset
           b == {r \in sql_tables.blocks :
                    r.dataset_id = dataset_id /\ r.name = MutBlock}
           bids == {r.id : r \in b}
       IN  IF NoParent(dataset_id)
           THEN Untouched
           ELSE /\ sql_tables' =
                      [sql_tables EXCEPT
                          !.blocks = @ \ b,
                          !.files = {r \in @ : r.block_id \notin bids},
                          !.block_replicas = {r \in @ : r.block_id \notin bids}]
                /\ queries' = Append(queries, "DELETE blocks")
                /\ UNCHANGED object_ids
    /\ UNCHANGED notMutate

save_file ==
    /\ Called("save_file")
    /\ MutatorReturns
    /\ LET dataset_id == object_ids.dataset
           block_id == object_ids.block
           res == _insert_update(sql_tables.files, {"name"},
                      [id |-> 0, block_id |-> block_id, dataset_id |-> dataset_id,
                       name |-> MutFile, size |-> mutate_call.block_size])
       IN  IF NoParent(dataset_id) \/ NoParent(block_id)
           THEN Untouched
           ELSE /\ sql_tables' = [sql_tables EXCEPT !.files = res.rows]
                /\ queries' = Append(queries, "INSERT files")
                /\ object_ids' = IF res.id # 0
                                 THEN [object_ids EXCEPT !.file = res.id]
                                 ELSE object_ids
    /\ UNCHANGED notMutate

save_blockreplica ==
    /\ Called("save_blockreplica")
    /\ MutatorReturns
    /\ LET block_id == object_ids.block
           site_id == object_ids.site
           res == _insert_update(sql_tables.block_replicas, {"block_id", "site_id"},
                      [block_id |-> block_id, site_id |-> site_id,
                       group_id |-> 1])
           sizes == _insert_update(sql_tables.block_replica_sizes,
                      {"block_id", "site_id"},
                      [block_id |-> block_id, site_id |-> site_id,
                       size |-> mutate_call.replica_size])
       IN  IF NoParent(block_id) \/ NoParent(site_id)
           THEN Untouched
           ELSE /\ IF mutate_call.replica_size # mutate_call.block_size
                   THEN /\ sql_tables' = [sql_tables EXCEPT
                                             !.block_replicas = res.rows,
                                             !.block_replica_sizes = sizes.rows]
                        /\ queries' = queries \o <<"INSERT block_replicas",
                                                   "INSERT block_replica_sizes">>
                   ELSE /\ sql_tables' =
                              [sql_tables EXCEPT
                                  !.block_replicas = res.rows,
                                  !.block_replica_sizes =
                                      {r \in @ : ~(r.block_id = block_id
                                                   /\ r.site_id = site_id)}]
                        /\ queries' = queries \o <<"INSERT block_replicas",
                                                   "DELETE block_replica_sizes">>
                /\ UNCHANGED object_ids
    /\ UNCHANGED notMutate

delete_blockreplica ==
    /\ Called("delete_blockreplica")
    /\ MutatorReturns
    /\ LET dataset_id == object_ids.dataset
           block_id == object_ids.block
           site_id == object_ids.site
           here(r) == r.block_id = block_id /\ r.site_id = site_id
           left == {r \in sql_tables.block_replicas : ~here(r)}
           count == Cardinality(
                      {r \in left :
                          /\ r.site_id = site_id
                          /\ \E b \in sql_tables.blocks :
                                b.id = r.block_id /\ b.dataset_id = dataset_id})
       IN  IF NoParent(dataset_id) \/ NoParent(block_id) \/ NoParent(site_id)
           THEN Untouched
           ELSE /\ sql_tables' =
                      [sql_tables EXCEPT
                          !.block_replicas = left,
                          !.block_replica_sizes = {r \in @ : ~here(r)},
                          !.dataset_replicas =
                              IF count = 0
                              THEN {r \in @ : ~(r.dataset_id = dataset_id
                                                /\ r.site_id = site_id)}
                              ELSE @]
                /\ queries' = queries \o
                      <<"DELETE block_replicas", "DELETE block_replica_sizes",
                        "SELECT block_replicas">> \o
                      (IF count = 0 THEN <<"DELETE dataset_replicas">> ELSE << >>)
                /\ UNCHANGED object_ids
    /\ UNCHANGED notMutate

\* DELETE FROM d, b, f, dr, br, brs ... WHERE d.name = %s
delete_dataset ==
    /\ Called("delete_dataset")
    /\ MutatorReturns
    /\ LET dids == {r.id : r \in {x \in sql_tables.datasets : x.name = MutDataset}}
           bids == {r.id : r \in {x \in sql_tables.blocks : x.dataset_id \in dids}}
       IN  sql_tables' =
              [sql_tables EXCEPT
                  !.datasets = {r \in @ : r.id \notin dids},
                  !.blocks = {r \in @ : r.dataset_id \notin dids},
                  !.files = {r \in @ : r.dataset_id \notin dids},
                  !.dataset_replicas = {r \in @ : r.dataset_id \notin dids},
                  !.block_replicas = {r \in @ : r.block_id \notin bids},
                  !.block_replica_sizes = {r \in @ : r.block_id \notin bids}]
    /\ queries' = Append(queries, "DELETE datasets")
    /\ UNCHANGED object_ids
    /\ UNCHANGED notMutate

save_datasetreplica ==
    /\ Called("save_datasetreplica")
    /\ MutatorReturns
    /\ LET dataset_id == object_ids.dataset
           site_id == object_ids.site
           res == _insert_update(sql_tables.dataset_replicas,
                      {"dataset_id", "site_id"},
                      [dataset_id |-> dataset_id, site_id |-> site_id])
       IN  IF NoParent(dataset_id) \/ NoParent(site_id)
           THEN Untouched
           ELSE /\ sql_tables' = [sql_tables EXCEPT !.dataset_replicas = res.rows]
                /\ queries' = Append(queries, "INSERT dataset_replicas")
                /\ UNCHANGED object_ids
    /\ UNCHANGED notMutate

delete_datasetreplica ==
    /\ Called("delete_datasetreplica")
    /\ MutatorReturns
    /\ LET dataset_id == object_ids.dataset
           site_id == object_ids.site
           br == {r \in sql_tables.block_replicas :
                     /\ r.site_id = site_id
                     /\ \E b \in sql_tables.blocks :
                           b.id = r.block_id /\ b.dataset_id = dataset_id}
           gone(r) == \E x \in br : x.block_id = r.block_id /\ x.site_id = r.site_id
       IN  IF NoParent(dataset_id) \/ NoParent(site_id)
           THEN Untouched
           ELSE /\ sql_tables' =
                      [sql_tables EXCEPT
                          !.block_replicas = @ \ br,
                          !.block_replica_sizes = {r \in @ : ~gone(r)},
                          !.dataset_replicas =
                              {r \in @ : ~(r.dataset_id = dataset_id
                                           /\ r.site_id = site_id)}]
                /\ queries' = queries \o <<"DELETE block_replicas",
                                           "DELETE dataset_replicas">>
                /\ UNCHANGED object_ids
    /\ UNCHANGED notMutate

save_sitepartition ==
    /\ Called("save_sitepartition")
    /\ MutatorReturns
    /\ LET site_id == object_ids.site
           result == {r.id : r \in {x \in sql_tables.partitions :
                                        x.name = MutPartition}}
           partition_id == CHOOSE i \in result : TRUE
           res == _insert_update(sql_tables.quotas, {"site_id", "partition_id"},
                      [site_id |-> site_id, partition_id |-> partition_id,
                       storage |-> mutate_call.quota])
       IN  IF mutate_call.subpartitions
           THEN Untouched
           ELSE IF NoParent(site_id)
           THEN Untouched
           ELSE IF result = {}
           THEN /\ queries' = Append(queries, "SELECT partitions")
                /\ UNCHANGED <<sql_tables, object_ids>>
           ELSE /\ sql_tables' = [sql_tables EXCEPT !.quotas = res.rows]
                /\ queries' = queries \o <<"SELECT partitions", "INSERT quotas">>
                /\ UNCHANGED object_ids
    /\ UNCHANGED notMutate

\* the rows a saved dataset, block, file and site can have in the tables
SavedRows(oid, have) ==
    [datasets |->
        IF oid.dataset # 0 THEN {[id |-> oid.dataset, name |-> MutDataset]} ELSE {},
     blocks |->
        IF oid.block # 0
        THEN {[id |-> oid.block, dataset_id |-> oid.dataset, name |-> MutBlock,
               size |-> 1]}
        ELSE {},
     files |->
        IF oid.file # 0
        THEN {[id |-> oid.file, block_id |-> oid.block, dataset_id |-> oid.dataset,
               name |-> MutFile, size |-> 1]}
        ELSE {},
     block_replicas |->
        IF have.block_replica
        THEN {[block_id |-> oid.block, site_id |-> oid.site, group_id |-> 0]}
        ELSE {},
     block_replica_sizes |->
        IF have.block_replica /\ have.replica_size
        THEN {[block_id |-> oid.block, site_id |-> oid.site, size |-> 2]}
        ELSE {},
     dataset_replicas |->
        IF have.block_replica \/ have.dataset_replica
        THEN {[dataset_id |-> oid.dataset, site_id |-> oid.site]}
        ELSE {},
     partitions |->
        IF have.partition THEN {[id |-> 1, name |-> MutPartition]} ELSE {},
     quotas |->
        IF have.partition /\ have.quota
        THEN {[site_id |-> oid.site, partition_id |-> 1, storage |-> 1]}
        ELSE {}]

InitMutate ==
    /\ GenIdle
    /\ StatusIdle
    /\ LoadIdle
    /\ WalkIdle
    /\ StoreIdle
    /\ LinksIdle
    /\ RestIdle
    /\ SchedIdle
    /\ EnfIdle
    /\ PolicyIdle
    /\ InfoIdle
    /\ mutate_pc = "idle"
    /\ queries = << >>
    /\ mutate_call \in [op : {"none"}, block_size : {1, 2}, replica_size : {1, 2},
                        subpartitions : BOOLEAN, quota : {2}]
    /\ object_ids \in {o \in [dataset : ObjectIds, block : ObjectIds,
                             file : ObjectIds, site : ObjectIds] :
                          /\ o.block # 0 => o.dataset # 0
                          /\ o.file # 0 => o.block # 0}
    /\ \E have \in [block_replica : BOOLEAN, replica_size : BOOLEAN,
                    dataset_replica : BOOLEAN, partition : BOOLEAN,
                    quota : BOOLEAN] :
          /\ have.block_replica => object_ids.block # 0 /\ object_ids.site # 0
          /\ have.replica_size => have.block_replica
          /\ have.dataset_replica => object_ids.dataset # 0 /\ object_ids.site # 0
          /\ have.quota => have.partition /\ object_ids.site # 0
          /\ sql_tables =
                [t \in DOMAIN OtherRows |->
                    OtherRows[t] \cup SavedRows(object_ids, have)[t]]
    /\ sql_before = [tables |-> sql_tables, ids |-> object_ids]

NextMutate ==
    \/ save_block
    \/ delete_block
    \/ save_file
    \/ save_blockreplica
    \/ delete_blockreplica
    \/ delete_dataset
    \/ save_datasetreplica
    \/ delete_datasetreplica
    \/ save_sitepartition

SpecMutate == InitMutate /\ [][NextMutate]_vars

\* the ids of the parent objects a mutator reads before its first query
ParentIds(op) ==
    CASE op \in {"save_block", "delete_block"} -> {"dataset"}
      [] op = "save_file" -> {"dataset", "block"}
      [] op = "save_blockreplica" -> {"block", "site"}
      [] op = "delete_blockreplica" -> {"dataset", "block", "site"}
      [] op \in {"save_datasetreplica", "delete_datasetreplica"} -> {"dataset", "site"}
      [] op = "save_sitepartition" -> {"site"}
      [] op = "delete_dataset" -> {}

MissingParent ==
    /\ mutate_pc = "done"
    /\ \E f \in ParentIds(mutate_call.op) : sql_before.ids[f] = 0

\* C26: an incremental mutator called on an entity whose dataset, block or
\* site id it depends on is 0 issues no query, leaves every table as it was
\* and leaves the ids of the objects as they were.
C26_MissingParentIsNoOp ==
    MissingParent =>
       /\ queries = << >>
       /\ sql_tables = sql_before.tables
       /\ object_ids = sql_before.ids

\* every one of the eight mutators has been seen to return on a missing parent
\* while a call with all parents saved writes: here save_blockreplica on an
\* unsaved block, with rows of other entities in the tables
C26_Witness ==
    /\ MissingParent
    /\ mutate_call.op = "save_blockreplica"
    /\ sql_before.ids.block = 0
    /\ sql_before.ids.site # 0
    /\ sql_tables.block_replicas # {}
    /\ queries = << >>

\* the rows of a table that belong to the dataset with id d or to one of its
\* blocks, whose ids are bids
RowsUnder(tbl, rows, d, bids) ==
    CASE tbl = "datasets" -> {r \in rows : r.id = d}
      [] tbl \in {"blocks", "dataset_replicas"} -> {r \in rows : r.dataset_id = d}
      [] tbl = "files" -> {r \in rows : r.dataset_id = d \/ r.block_id \in bids}
      [] tbl \in {"block_replicas", "block_replica_sizes"} ->
            {r \in rows : r.block_id \in bids}
      [] OTHER -> {}

\* the ids the blocks of the dataset had in the table before the call
BlockIdsBefore ==
    {r.id : r \in {x \in sql_before.tables.blocks :
                      x.dataset_id = sql_before.ids.dataset}}

\* C34: after delete_dataset(d) no row of blocks, files, dataset_replicas,
\* block_replicas or block_replica_sizes refers to d or to a block of d; after
\* delete_block(b) no row of files, block_replicas or block_replica_sizes
\* refers to b; the rows of other datasets and blocks are as before.
C34_DeletionLeavesNoOrphans ==
    /\ (mutate_pc = "done" /\ mutate_call.op = "delete_dataset"
        /\ sql_before.ids.dataset # 0) =>
          \A tbl \in DOMAIN sql_tables :
             sql_tables[tbl] =
                sql_before.tables[tbl] \
                   RowsUnder(tbl, sql_before.tables[tbl], sql_before.ids.dataset,
                             BlockIdsBefore)
    /\ (mutate_pc = "done" /\ mutate_call.op = "delete_block"
        /\ sql_before.ids.block # 0) =>
          \A tbl \in DOMAIN sql_tables :
             sql_tables[tbl] =
                IF tbl \in {"blocks", "files", "block_replicas", "block_replica_sizes"}
                THEN sql_before.tables[tbl] \
                        ({r \in sql_before.tables[tbl] :
                             tbl = "blocks" /\ r.id = sql_before.ids.block}
                         \cup RowsUnder(tbl, sql_before.tables[tbl], 0,
                                        {sql_before.ids.block}))
                ELSE sql_before.tables[tbl]

(***************************************************************************)
(* MySQLInventoryStore._load_replicas, one row of the query at a time: the *)
(* stream is ordered by (dataset_id, site_id) and has one row per block of *)
(* the dataset, with a null block_id where the site has no replica of it.  *)
(***************************************************************************)
WalkDatasets == {1, 2}

WalkSites == {1, 2}

\* the (dataset_id, site_id) pairs in the order of the stream
WalkPairs == <<<<1, 1>>, <<1, 2>>, <<2, 1>>, <<2, 2>>>>

\* a null in the block_id column (block ids start at 1)
NoBlock == 0

\* None as the value of the local dataset_replica
NoReplica == [dataset |-> 0, site |-> 0, block_replicas |-> << >>]

\* the block_id column of the rows of one pair: no row (no dataset replica),
\* or one row per block of the dataset, null without a block replica
BlockColumns(d) ==
    LET b1 == 2 * d - 1
        b2 == 2 * d
    IN  {<< >>, <<NoBlock>>, <<b1>>, <<NoBlock, NoBlock>>, <<b1, NoBlock>>,
         <<NoBlock, b2>>, <<b1, b2>>, <<b2, b1>>}

ReplicaRow(pair, block_id) ==
    [dataset_id |-> pair[1], site_id |-> pair[2], block_id |-> block_id]

\* the streams: ORDER BY dr.dataset_id, dr.site_id
Streams ==
    {Concat([k \in 1..Len(WalkPairs) |->
               [j \in 1..Len(cols[k]) |-> ReplicaRow(WalkPairs[k], cols[k][j])]])
       : cols \in {c \in [1..Len(WalkPairs) -> UNION {BlockColumns(d) : d \in WalkDatasets}] :
                     \A k \in 1..Len(WalkPairs) : c[k] \in BlockColumns(WalkPairs[k][1])}}

\* a test that looks at the dataset only
IsNewReplicaByDataset(dataset_replica, dataset, site) ==
    \/ dataset_replica = NoReplica
    \/ dataset # dataset_replica.dataset

\* dataset_replica is None or dataset is not dataset_replica.dataset or
\* site is not dataset_replica.site
IsNewReplica(dataset_replica, dataset, site) ==
    \/ dataset_replica = NoReplica
    \/ dataset # dataset_replica.dataset
    \/ site # dataset_replica.site

\* dataset.replicas.add(dataset_replica); site.add_dataset_replica(..)
AddToDatasetAndSite(log, k) ==
    Append(log, [replica |-> k, attached |-> Len(made_replicas[k].block_replicas)])

\* one pass of the for loop
LoadReplicaRow ==
    /\ walk_pc = "loop"
    /\ walk_i < Len(walk_rows)
    /\ LET row == walk_rows[walk_i + 1]
           new_dataset == row.dataset_id # walk_locals._dataset_id
           dataset == IF new_dataset THEN row.dataset_id ELSE walk_locals.dataset
           site == IF row.site_id # walk_locals._site_id THEN row.site_id
                   ELSE walk_locals.site
           cleared == IF new_dataset THEN [linked_replicas EXCEPT ![dataset] = {}]
                      ELSE linked_replicas
           last == walk_locals.dataset_replica
           is_new == IsNewReplica(IF last = 0 THEN NoReplica ELSE made_replicas[last],
                                  dataset, site)
           made == IF is_new
                   THEN Append(made_replicas,
                               [dataset |-> dataset, site |-> site,
                                block_replicas |-> << >>])
                   ELSE made_replicas
           dataset_replica == IF is_new THEN Len(made) ELSE last
       IN  /\ linked_replicas' =
                 IF is_new /\ last # 0
                 THEN [cleared EXCEPT ![made_replicas[last].dataset] = @ \cup {last}]
                 ELSE cleared
           /\ link_log' = IF is_new /\ last # 0 THEN AddToDatasetAndSite(link_log, last)
                          ELSE link_log
           /\ made_replicas' =
                 IF row.block_id = NoBlock THEN made
                 ELSE [made EXCEPT ![dataset_replica].block_replicas =
                                      Append(@, row.block_id)]
           /\ walk_locals' = [_dataset_id |-> row.dataset_id, _site_id |-> row.site_id,
                              dataset |-> dataset, site |-> site,
                              dataset_replica |-> dataset_replica]
    /\ walk_i' = walk_i + 1
    /\ UNCHANGED <<walk_rows, walk_pc>>
    /\ UNCHANGED notWalk

\* after the loop: "one last bit"
LinkLastReplica ==
    /\ walk_pc = "loop"
    /\ walk_i = Len(walk_rows)
    /\ LET last == walk_locals.dataset_replica
       IN  IF last # 0
           THEN /\ linked_replicas' =
                      [linked_replicas EXCEPT ![made_replicas[last].dataset] =
                                                 @ \cup {last}]
                /\ link_log' = AddToDatasetAndSite(link_log, last)
           ELSE UNCHANGED <<linked_replicas, link_log>>
    /\ walk_pc' = "done"
    /\ UNCHANGED <<walk_rows, walk_i, walk_locals, made_replicas>>
    /\ UNCHANGED notWalk

InitWalk ==
    /\ GenIdle
    /\ StatusIdle
    /\ LoadIdle
    /\ StoreIdle
    /\ LinksIdle
    /\ RestIdle
    /\ SchedIdle
    /\ EnfIdle
    /\ PolicyIdle
    /\ InfoIdle
    /\ MutateIdle
    /\ walk_rows \in Streams
    /\ walk_pc = "loop"
    /\ walk_i = 0
    /\ walk_locals = [_dataset_id |-> 0, _site_id |-> 0, dataset |-> 0,
                      site |-> 0, dataset_replica |-> 0]
    /\ made_replicas = << >>
    /\ linked_replicas = [d \in WalkDatasets |-> {}]
    /\ link_log = << >>

NextWalk ==
    \/ LoadReplicaRow
    \/ LinkLastReplica

SpecWalk == InitWalk /\ [][NextWalk]_vars

\* the rows of the stream of one (dataset_id, site_id) pair
RowsOf(pair) ==
    SelectSeq(walk_rows, LAMBDA r : r.dataset_id = pair[1] /\ r.site_id = pair[2])

BlockRowsOf(pair) == SelectSeq(RowsOf(pair), LAMBDA r : r.block_id # NoBlock)

ReplicasOfPair(pair) ==
    {k \in 1..Len(made_replicas) :
        made_replicas[k].dataset = pair[1] /\ made_replicas[k].site = pair[2]}

\* C32: for a stream ordered by (dataset_id, site_id), _load_replicas makes
\* exactly one DatasetReplica per pair of the stream, adds it once to its
\* dataset and its site, after all its block replicas were attached, and a
\* row with a null block_id makes no BlockReplica.
C32_OneReplicaPerPairLinkedOnce ==
    walk_pc = "done" =>
       /\ \A p \in Range(WalkPairs) :
             /\ Cardinality(ReplicasOfPair(p)) = IF RowsOf(p) = << >> THEN 0 ELSE 1
             /\ \A k \in ReplicasOfPair(p) :
                   /\ made_replicas[k].block_replicas =
                         [j \in 1..Len(BlockRowsOf(p)) |-> BlockRowsOf(p)[j].block_id]
                   /\ k \in linked_replicas[p[1]]
       /\ \A k \in 1..Len(made_replicas) :
             /\ Cardinality({j \in 1..Len(link_log) : link_log[j].replica = k}) = 1
             /\ \A j \in 1..Len(link_log) :
                   link_log[j].replica = k =>
                      link_log[j].attached = Len(made_replicas[k].block_replicas)
       /\ \A d \in WalkDatasets :
             linked_replicas[d] = {k \in 1..Len(made_replicas) :
                                     made_replicas[k].dataset = d}

\* a dataset with replicas at two sites, one of them with a null row, and a
\* second dataset after it
C32_Witness ==
    /\ walk_pc = "done"
    /\ Len(made_replicas) >= 3
    /\ Cardinality(linked_replicas[1]) = 2
    /\ \E i \in 1..Len(walk_rows) : walk_rows[i].block_id = NoBlock
    /\ \E k \in 1..Len(made_replicas) : Len(made_replicas[k].block_replicas) = 2

(***************************************************************************)
(* MySQLInventoryStore.load_data: the temporary filter tables and the      *)
(* connection-reuse setting, with every query of a step able to fail.      *)
(***************************************************************************)
\* the steps of load_data in the order of the code
LoadSteps ==
    <<"enter", "groups_tmp", "_load_groups", "sites_tmp", "_load_sites",
      "datasets_tmp", "_load_datasets", "_load_blocks", "_load_replicas",
      "drop_groups", "drop_sites", "drop_datasets", "restore", "returned">>

StepAfter(pc) ==
    LoadSteps[1 + CHOOSE k \in 1..Len(LoadSteps) : LoadSteps[k] = pc]

\* the table a _setup_constraints or drop_tmp_table step is about
FilterOf(pc) ==
    CASE pc \in {"groups_tmp", "drop_groups"} -> "groups"
      [] pc \in {"sites_tmp", "drop_sites"} -> "sites"
      [] pc \in {"datasets_tmp", "drop_datasets"} -> "datasets"

\* reuse_connection_orig = reuse_connection; reuse_connection = True
EnterLoad ==
    /\ load_pc = "enter"
    /\ reuse_connection_orig' = reuse_connection
    /\ reuse_connection' = TRUE
    /\ load_pc' = StepAfter(load_pc)
    /\ UNCHANGED <<load_names, tmp_tables>>
    /\ UNCHANGED notLoad

\* if names is not None: _setup_constraints (create_tmp_table, execute_many)
SetupConstraints ==
    /\ load_pc \in {"groups_tmp", "sites_tmp", "datasets_tmp"}
    /\ tmp_tables' = IF load_names[FilterOf(load_pc)]
                     THEN tmp_tables \cup {FilterOf(load_pc)}
                     ELSE tmp_tables
    /\ load_pc' = StepAfter(load_pc)
    /\ UNCHANGED <<load_names, reuse_connection, reuse_connection_orig>>
    /\ UNCHANGED notLoad

\* _load_groups .. _load_replicas: the queries of the step go through
LoadStep ==
    /\ load_pc \in {"_load_groups", "_load_sites", "_load_datasets", "_load_blocks",
                    "_load_replicas"}
    /\ load_pc' = StepAfter(load_pc)
    /\ UNCHANGED <<load_names, reuse_connection, reuse_connection_orig, tmp_tables>>
    /\ UNCHANGED notLoad

\* a query of the step fails: the exception leaves load_data, which has no
\* handler; a failed execute_many leaves the table create_tmp_table made
LoadQueryFails ==
    /\ load_pc \in {"groups_tmp", "sites_tmp", "datasets_tmp", "_load_groups",
                    "_load_sites", "_load_datasets", "_load_blocks", "_load_replicas"}
    /\ load_pc \in {"groups_tmp", "sites_tmp", "datasets_tmp"} => load_names[FilterOf(load_pc)]
    /\ \E created \in BOOLEAN :
          /\ created => load_pc \in {"groups_tmp", "sites_tmp", "datasets_tmp"}
          /\ tmp_tables' = IF created THEN tmp_tables \cup {FilterOf(load_pc)}
                           ELSE tmp_tables
    /\ load_pc' = "raised"
    /\ UNCHANGED <<load_names, reuse_connection, reuse_connection_orig>>
    /\ UNCHANGED notLoad

\* if names is not None: drop_tmp_table
DropTmpTable ==
    /\ load_pc \in {"drop_groups", "drop_sites", "drop_datasets"}
    /\ tmp_tables' = IF load_names[FilterOf(load_pc)]
                     THEN tmp_tables \ {FilterOf(load_pc)}
                     ELSE tmp_tables
    /\ load_pc' = StepAfter(load_pc)
    /\ UNCHANGED <<load_names, reuse_connection, reuse_connection_orig>>
    /\ UNCHANGED notLoad

\* reuse_connection = reuse_connection_orig
RestoreReuse ==
    /\ load_pc = "restore"
    /\ reuse_connection' = reuse_connection_orig
    /\ load_pc' = StepAfter(load_pc)
    /\ UNCHANGED <<load_names, reuse_connection_orig, tmp_tables>>
    /\ UNCHANGED notLoad

InitLoad ==
    /\ GenIdle
    /\ StatusIdle
    /\ StoreIdle
    /\ LinksIdle
    /\ RestIdle
    /\ SchedIdle
    /\ EnfIdle
    /\ PolicyIdle
    /\ InfoIdle
    /\ MutateIdle
    /\ WalkIdle
    /\ load_pc = "enter"
    /\ load_names \in [{"groups", "sites", "datasets"} -> BOOLEAN]
    /\ reuse_connection \in BOOLEAN
    /\ reuse_connection_orig = FALSE
    /\ tmp_tables = {}

NextLoad ==
    \/ EnterLoad
    \/ SetupConstraints
    \/ LoadStep
    \/ LoadQueryFails
    \/ DropTmpTable
    \/ RestoreReuse

SpecLoad == InitLoad /\ [][NextLoad]_vars

\* C33: on every exit of load_data, an exit by a failed query included, the
\* temporary filter tables it made are dropped and the connection-reuse
\* setting has the value it had before the call; while load_data runs its
\* loading steps the connection is reused.
C33_LoadCleansUpOnEveryExit ==
    /\ load_pc \in {"returned", "raised"} =>
          /\ tmp_tables = {}
          /\ reuse_connection = reuse_connection_orig
    /\ load_pc \notin {"enter", "returned", "raised"} => reuse_connection

\* ---------------------------------------------------------------------------
\* PhEDExDBSSSB.set_site_status (phedexdbsssb.py): the statuses of the sites
\* from the two feeds of the dashboard
\* ---------------------------------------------------------------------------

MaxEntries == 2

\* the sites of the map handed to set_site_status
SsbSites == {"S1", "S2"}

\* the entries of a feed: VOName, Time (as the seconds mktime(strptime(..))
\* makes of it) and Status; SX is a site the map does not have
SsbEntries ==
    [VOName : {"S1"}, Time : {1, 2}, Status : {"in", "out"}]
        \cup {[VOName |-> "SX", Time |-> 1, Status |-> "in"]}

\* what make_request returns for one column: a document without 'csvdata',
\* a text that is no JSON, or a document with its entries
SsbAnswers ==
    [kind : {"no_csvdata", "not_json"}, csvdata : {<< >>}]
        \cup [kind : {"csvdata"}, csvdata : SeqsUpTo(SsbEntries, MaxEntries)]

\* for colid, stat in [(153, Site.STAT_WAITROOM), (199, Site.STAT_MORGUE)]
ColumnStat == <<"WAITROOM", "MORGUE">>

Parsable(result) == result.kind = "csvdata"

\* for site in sites.values(): site.status = Site.STAT_READY
MarkSitesReady ==
    /\ ssb_pc = "enter"
    /\ site_status' = [s \in SsbSites |-> "READY"]
    /\ ssb_col' = 1
    /\ ssb_pc' = "fetch"
    /\ UNCHANGED <<ssb_feeds, ssb_i, latest_timestamp>>
    /\ UNCHANGED notStatus

\* source = json.loads(result)['csvdata']; latest_timestamp = {}
FetchFeed ==
    /\ ssb_pc = "fetch"
    /\ ssb_col <= Len(ColumnStat)
    /\ Parsable(ssb_feeds[ssb_col])
    /\ latest_timestamp' = << >>
    /\ ssb_i' = 0
    /\ ssb_pc' = "entries"
    /\ UNCHANGED <<ssb_feeds, ssb_col, site_status>>
    /\ UNCHANGED notStatus

\* except KeyError: logger.error('SSB parse error'); return
SsbParseError ==
    /\ ssb_pc = "fetch"
    /\ ssb_col <= Len(ColumnStat)
    /\ ssb_feeds[ssb_col].kind = "no_csvdata"
    /\ ssb_pc' = "returned"
    /\ UNCHANGED <<ssb_feeds, ssb_col, ssb_i, site_status, latest_timestamp>>
    /\ UNCHANGED notStatus

\* json.loads raises ValueError, which no handler of set_site_status takes
SsbNotJson ==
    /\ ssb_pc = "fetch"
    /\ ssb_col <= Len(ColumnStat)
    /\ ssb_feeds[ssb_col].kind = "not_json"
    /\ ssb_pc' = "raised"
    /\ UNCHANGED <<ssb_feeds, ssb_col, ssb_i, site_status, latest_timestamp>>
    /\ UNCHANGED notStatus

\* if site in latest_timestamp and latest_timestamp[site] > timestamp: continue
OlderThanSeen(seen, site, timestamp) ==
    site \in DOMAIN seen /\ seen[site] > timestamp

\* one pass of "for entry in source"
ApplyEntry ==
    /\ ssb_pc = "entries"
    /\ ssb_i < Len(ssb_feeds[ssb_col].csvdata)
    /\ LET entry == ssb_feeds[ssb_col].csvdata[ssb_i + 1]
           site == entry.VOName
       IN  IF site \notin SsbSites \/ OlderThanSeen(latest_timestamp, site, entry.Time)
           THEN UNCHANGED <<site_status, latest_timestamp>>
           ELSE /\ latest_timestamp' =
                      [s \in DOMAIN latest_timestamp \cup {site} |->
                          IF s = site THEN entry.Time ELSE latest_timestamp[s]]
                /\ site_status' =
                      [site_status EXCEPT ![site] =
                          IF entry.Status = "in" THEN ColumnStat[ssb_col] ELSE "READY"]
    /\ ssb_i' = ssb_i + 1
    /\ UNCHANGED <<ssb_feeds, ssb_col, ssb_pc>>
    /\ UNCHANGED notStatus

\* the feed is through: the next column
NextColumn ==
    /\ ssb_pc = "entries"
    /\ ssb_i = Len(ssb_feeds[ssb_col].csvdata)
    /\ ssb_col' = ssb_col + 1
    /\ ssb_pc' = "fetch"
    /\ UNCHANGED <<ssb_feeds, ssb_i, site_status, latest_timestamp>>
    /\ UNCHANGED notStatus

\* both columns are through
SsbReturn ==
    /\ ssb_pc = "fetch"
    /\ ssb_col > Len(ColumnStat)
    /\ ssb_pc' = "returned"
    /\ UNCHANGED <<ssb_feeds, ssb_col, ssb_i, site_status, latest_timestamp>>
    /\ UNCHANGED notStatus

InitStatus ==
    /\ GenIdle
    /\ StoreIdle
    /\ LinksIdle
    /\ RestIdle
    /\ SchedIdle
    /\ EnfIdle
    /\ PolicyIdle
    /\ InfoIdle
    /\ MutateIdle
    /\ WalkIdle
    /\ LoadIdle
    /\ ssb_feeds \in [DOMAIN ColumnStat -> SsbAnswers]
    /\ ssb_pc = "enter"
    /\ ssb_col = 0
    /\ ssb_i = 0
    /\ site_status \in [SsbSites -> {"UNKNOWN", "MORGUE"}]
    /\ site_status["S2"] = "UNKNOWN"
    /\ latest_timestamp = << >>

NextStatus ==
    \/ MarkSitesReady
    \/ FetchFeed
    \/ SsbParseError
    \/ SsbNotJson
    \/ ApplyEntry
    \/ NextColumn
    \/ SsbReturn

SpecStatus == InitStatus /\ [][NextStatus]_vars

\* the statuses one feed leaves, from the statuses before it
RECURSIVE AfterFeed(_, _, _, _)
AfterFeed(status, seen, source, stat) ==
    IF source = << >> THEN status
    ELSE LET entry == Head(source)
             site == entry.VOName
         IN  IF site \notin SsbSites \/ OlderThanSeen(seen, site, entry.Time)
             THEN AfterFeed(status, seen, Tail(source), stat)
             ELSE AfterFeed([status EXCEPT ![site] =
                                IF entry.Status = "in" THEN stat ELSE "READY"],
                            [s \in DOMAIN seen \cup {site} |->
                                IF s = site THEN entry.Time ELSE seen[s]],
                            Tail(source), stat)

\* the statuses when every feed that parses is applied, in the order of the columns
RECURSIVE AfterParsableFeeds(_, _)
AfterParsableFeeds(status, col) ==
    IF col > Len(ColumnStat) THEN status
    ELSE AfterParsableFeeds(
             IF Parsable(ssb_feeds[col])
             THEN AfterFeed(status, << >>, ssb_feeds[col].csvdata, ColumnStat[col])
             ELSE status,
             col + 1)

SsbOver == ssb_pc \in {"returned", "raised"}

\* C36: a feed that does not parse is skipped and nothing else: when
\* set_site_status is over, the statuses are those the feeds that parse
\* leave, applied in the order of the columns to sites all READY
C36_ParseFailureSkipsOneFeed ==
    SsbOver => site_status = AfterParsableFeeds([s \in SsbSites |-> "READY"], 1)

\* the entries of a site in the feed of a column
EntriesOfSite(col, s) ==
    {ssb_feeds[col].csvdata[k] : k \in {i \in 1..Len(ssb_feeds[col].csvdata) :
                                           ssb_feeds[col].csvdata[i].VOName = s}}

\* the most recent entry of the site in the feed says 'in'
MostRecentIsIn(col, s) ==
    /\ EntriesOfSite(col, s) # {}
    /\ \A e \in EntriesOfSite(col, s) :
          (\A o \in EntriesOfSite(col, s) : o.Time <= e.Time) => e.Status = "in"

\* the same entries in every order
Reorderings(source) ==
    {[k \in 1..Len(source) |-> source[p[k]]] : p \in Permutations(1..Len(source))}

BothFeedsApplied ==
    /\ ssb_pc = "returned"
    /\ \A col \in DOMAIN ColumnStat : Parsable(ssb_feeds[col])

\* C37: after set_site_status with both feeds applied, a site whose most
\* recent WAITROOM entry says 'in' is not READY, and the statuses are the
\* same for every order of the entries inside the feeds
C37_WaitroomSiteIsNotReady ==
    BothFeedsApplied =>
       /\ \A s \in SsbSites : MostRecentIsIn(1, s) => site_status[s] # "READY"
       /\ \A w \in Reorderings(ssb_feeds[1].csvdata), m \in Reorderings(ssb_feeds[2].csvdata) :
             site_status = AfterFeed(AfterFeed([s \in SsbSites |-> "READY"],
                                               << >>, w, ColumnStat[1]),
                                     << >>, m, ColumnStat[2])

\* ---------------------------------------------------------------------------
\* Generator (classes.py): the store of singleton objects, with callers
\* whose calls can interleave
\* ---------------------------------------------------------------------------

MaxCalls == 3

GenCallers == {"t1", "t2"}

\* default_interface: the class each Generator wraps (three of its keys)
GenClassOf ==
    [dataset_source |-> "localDBSSSB", site_source |-> "localDBSSSB",
     store |-> "MySQLStore"]

NoObject == [cls |-> "None", n |-> 0]

\* the test of "obj = Generator._singletons[self._cls]" that never finds it
HasSingletonNever(store, cls) == FALSE

\* obj = Generator._singletons[self._cls] raises KeyError or not
HasSingleton(store, cls) == cls \in DOMAIN store

GenAt(t, pc) == gen_pc[t] = pc

\* a call of default_interface[key]()
GenCall(t, key) ==
    /\ GenAt(t, "idle")
    /\ gen_calls < MaxCalls
    /\ gen_calls' = gen_calls + 1
    /\ gen_key' = [gen_key EXCEPT ![t] = key]
    /\ gen_pc' = [gen_pc EXCEPT ![t] = "lookup"]
    /\ gen_overlap' = (gen_overlap \/ \E o \in GenCallers \ {t} : ~GenAt(o, "idle"))
    /\ UNCHANGED <<singletons, gen_obj, gen_instances, gen_returns>>
    /\ UNCHANGED notGen

\* try: obj = Generator._singletons[self._cls]
GenLookup(t) ==
    /\ GenAt(t, "lookup")
    /\ LET cls == GenClassOf[gen_key[t]]
       IN  IF HasSingleton(singletons, cls)
           THEN /\ gen_obj' = [gen_obj EXCEPT ![t] = singletons[cls]]
                /\ gen_pc' = [gen_pc EXCEPT ![t] = "return"]
           ELSE /\ gen_pc' = [gen_pc EXCEPT ![t] = "construct"]
                /\ UNCHANGED gen_obj
    /\ UNCHANGED <<singletons, gen_key, gen_instances, gen_returns, gen_calls,
                   gen_overlap>>
    /\ UNCHANGED notGen

\* except KeyError: obj = self._cls()
GenConstruct(t) ==
    /\ GenAt(t, "construct")
    /\ LET cls == GenClassOf[gen_key[t]]
           obj == [cls |-> cls,
                   n |-> 1 + Cardinality({o \in gen_instances : o.cls = cls})]
       IN  /\ gen_obj' = [gen_obj EXCEPT ![t] = obj]
           /\ gen_instances' = gen_instances \cup {obj}
    /\ gen_pc' = [gen_pc EXCEPT ![t] = "store"]
    /\ UNCHANGED <<singletons, gen_key, gen_returns, gen_calls, gen_overlap>>
    /\ UNCHANGED notGen

\* Generator._singletons[self._cls] = obj
GenStore(t) ==
    /\ GenAt(t, "store")
    /\ LET cls == GenClassOf[gen_key[t]]
       IN  singletons' = [c \in DOMAIN singletons \cup {cls} |->
                             IF c = cls THEN gen_obj[t] ELSE singletons[c]]
    /\ gen_pc' = [gen_pc EXCEPT ![t] = "return"]
    /\ UNCHANGED <<gen_key, gen_obj, gen_instances, gen_returns, gen_calls,
                   gen_overlap>>
    /\ UNCHANGED notGen

\* return obj
GenReturn(t) ==
    /\ GenAt(t, "return")
    /\ gen_returns' = Append(gen_returns, [key |-> gen_key[t], obj |-> gen_obj[t]])
    /\ gen_pc' = [gen_pc EXCEPT ![t] = "idle"]
    /\ gen_obj' = [gen_obj EXCEPT ![t] = NoObject]
    /\ UNCHANGED <<singletons, gen_key, gen_instances, gen_calls, gen_overlap>>
    /\ UNCHANGED notGen

InitGen ==
    /\ StoreIdle
    /\ LinksIdle
    /\ RestIdle
    /\ SchedIdle
    /\ EnfIdle
    /\ PolicyIdle
    /\ InfoIdle
    /\ MutateIdle
    /\ WalkIdle
    /\ LoadIdle
    /\ StatusIdle
    /\ singletons = << >>
    /\ gen_pc = [t \in GenCallers |-> "idle"]
    /\ gen_key = [t \in GenCallers |-> "store"]
    /\ gen_obj = [t \in GenCallers |-> NoObject]
    /\ gen_instances = {}
    /\ gen_returns = << >>
    /\ gen_calls = 0
    /\ gen_overlap = FALSE

NextGen ==
    \/ \E t \in GenCallers, key \in DOMAIN GenClassOf : GenCall(t, key)
    \/ \E t \in GenCallers : GenLookup(t)
    \/ \E t \in GenCallers : GenConstruct(t)
    \/ \E t \in GenCallers : GenStore(t)
    \/ \E t \in GenCallers : GenReturn(t)

SpecGen == InitGen /\ [][NextGen]_vars

\* every class is instantiated at most once and all calls of Generators of
\* one class returned the same object
OneInstancePerClass ==
    /\ \A a, b \in gen_instances : a.cls = b.cls => a = b
    /\ \A k, j \in 1..Len(gen_returns) :
          GenClassOf[gen_returns[k].key] = GenClassOf[gen_returns[j].key] =>
             gen_returns[k].obj = gen_returns[j].obj

====
